---- MODULE Spec2Model ----
(***************************************************************************)
(* Bytecode breakpoints of the Python Cloud Debugger: the breakpoint       *)
(* registry (BytecodeBreakpoint), the bytecode rewriting it drives, the    *)
(* line table enumerator and the sentinel callable (PythonCallback), with  *)
(* an interpreter frame that executes the (patched) bytecode.              *)
(*                                                                         *)
(* Bytecode is CPython 2.7 bytecode: 1-byte instructions without argument, *)
(* 3-byte instructions with a 16 bit little-endian argument, and 6-byte    *)
(* EXTENDED_ARG forms.                                                     *)
(***************************************************************************)
EXTENDS Integers, Sequences, FiniteSets, TLC

VARIABLES
    co,              \* code object id -> PyCodeObject attributes
    cookie_counter_, \* BytecodeBreakpoint::cookie_counter_
    cookie_map_,     \* BytecodeBreakpoint::cookie_map_ : cookie -> Breakpoint
    patches_,        \* BytecodeBreakpoint::patches_ : code object -> CodeObjectBreakpoints
    status,          \* Breakpoint::status of every registered breakpoint
    callback_,       \* PythonCallback::callback_ of the callable wrapped for a cookie: set or not
    frame,           \* the interpreter frame executing a code object, or NoFrame
    last,            \* what the last operation was and what its caller observed
    manipulator,     \* a BytecodeManipulator: data_, has_lnotab_, strategy_ and its last call
    bucket,          \* a LeakyBucket, its clock and the threads calling it
    tracer,          \* an ImmutabilityTracer and the evaluation it traces
    thread,          \* the PyThreadState of an evaluating thread and its tracer scopes
    conditional,     \* a ConditionalBreakpoint, the condition quotas and the events it surfaced
    codec,           \* the vector and the instruction of the last ReadInstruction or WriteInstruction
    thread_breakpoints \* a ThreadBreakpoints and the trace event it is handling

\* The variables of the breakpoints registry and of the program it patches.
registry == <<co, cookie_counter_, cookie_map_, patches_, status, callback_, frame, last>>

vars == <<co, cookie_counter_, cookie_map_, patches_, status, callback_, frame, last,
          manipulator, bucket, tracer, thread, conditional, codec, thread_breakpoints>>

\* The value of the variable of an object that a specification leaves out.
Idle == "idle"

----------------------------------------------------------------------------
(* Bounds of the model.                                                    *)

\* Number of successful SetBreakpoint calls in a run.
MaxBreakpoints == 2

\* Largest source line a caller asks for (the programs have 4 lines).
MaxLine == 5

----------------------------------------------------------------------------
(* CPython 2.7 opcodes used by the sources.                                *)

POP_TOP == 1
NOP == 9
RETURN_VALUE == 83
HAVE_ARGUMENT == 90
FOR_ITER == 93
LOAD_CONST == 100
JUMP_FORWARD == 110
JUMP_IF_FALSE_OR_POP == 111
JUMP_IF_TRUE_OR_POP == 112
JUMP_ABSOLUTE == 113
POP_JUMP_IF_FALSE == 114
POP_JUMP_IF_TRUE == 115
CONTINUE_LOOP == 119
SETUP_LOOP == 120
SETUP_EXCEPT == 121
SETUP_FINALLY == 122
CALL_FUNCTION == 131
SETUP_WITH == 143
EXTENDED_ARG == 145

\* HAS_ARG(op) of the interpreter's opcode.h.
HAS_ARG(op) == op >= HAVE_ARGUMENT

\* "Delta target argument" cases of InsertMethodCall's switch.
DeltaBranchOpcodes ==
    {FOR_ITER, JUMP_FORWARD, SETUP_LOOP, SETUP_EXCEPT, SETUP_FINALLY, SETUP_WITH}

\* "Absolute target argument" cases of InsertMethodCall's switch.
AbsoluteBranchOpcodes ==
    {JUMP_IF_FALSE_OR_POP, JUMP_IF_TRUE_OR_POP, JUMP_ABSOLUTE,
     POP_JUMP_IF_FALSE, POP_JUMP_IF_TRUE, CONTINUE_LOOP}

\* Constants tuples of at least this size are refused.
kMaxCodeObjectConsts == 61440

\* First cookie handed out.
kFirstCookie == 1000000

\* sizeof(MethodCallBytecode)
kMethodCallSize == 7

----------------------------------------------------------------------------
(* Fixed-width integer conversions.                                        *)

TwoTo16 == 65536

ToUInt16(x) == x % TwoTo16

ToInt16(x) == IF (x % TwoTo16) >= 32768 THEN (x % TwoTo16) - TwoTo16 ELSE x % TwoTo16

\* A 32 bit quantity is kept as the signed number it is congruent to modulo
\* 2^32 (the model checker's integers are 32 bit themselves), so the casts
\* between int and uint32 leave the number alone.
ToUInt32(x) == x

ToInt32(x) == x

\* The uint32 made of two 16 bit halves.
MakeUInt32(hi, lo) == ToInt16(hi) * TwoTo16 + lo

\* The upper 16 bit half of a uint32.
HiUInt16(x) == ToUInt16((x - ToUInt16(x)) \div TwoTo16)

----------------------------------------------------------------------------
(* Byte strings (std::vector<uint8>, PyString).  A byte string is kept as  *)
(* pre ++ NOP^sled ++ post: a run of `sled` NOP bytes is kept as its       *)
(* length, so that bytecode longer than 64K, which the 16 bit branch       *)
(* arguments need to overflow, stays small.  Offsets are 0-based.          *)

RECURSIVE Nops(_)
Nops(n) == IF n <= 0 THEN << >> ELSE <<NOP>> \o Nops(n - 1)

Bytes(s) == [pre |-> s, sled |-> 0, post |-> << >>]

BLen(b) == Len(b.pre) + b.sled + Len(b.post)

BAt(b, i) ==
    IF i < Len(b.pre) THEN b.pre[i + 1]
    ELSE IF i < Len(b.pre) + b.sled THEN NOP
    ELSE b.post[i - Len(b.pre) - b.sled + 1]

\* TRUE when offset i is a byte of the NOP run.
InSled(b, i) == i >= Len(b.pre) /\ i < Len(b.pre) + b.sled

SledEnd(b) == Len(b.pre) + b.sled

SeqInsert(s, i, x) == SubSeq(s, 1, i) \o x \o SubSeq(s, i + 1, Len(s))

SeqWrite(s, i, x) == SubSeq(s, 1, i) \o x \o SubSeq(s, i + Len(x) + 1, Len(s))

\* vector::insert(begin() + off, x...)
BInsert(b, off, x) ==
    IF off <= Len(b.pre) THEN [b EXCEPT !.pre = SeqInsert(b.pre, off, x)]
    ELSE IF off >= SledEnd(b)
      THEN [b EXCEPT !.post = SeqInsert(b.post, off - SledEnd(b), x)]
    ELSE [pre |-> b.pre \o Nops(off - Len(b.pre)) \o x,
          sled |-> SledEnd(b) - off,
          post |-> b.post]

\* Overwrites Len(x) bytes starting at off.
BWrite(b, off, x) ==
    IF off + Len(x) <= Len(b.pre) THEN [b EXCEPT !.pre = SeqWrite(b.pre, off, x)]
    ELSE IF off >= SledEnd(b)
      THEN [b EXCEPT !.post = SeqWrite(b.post, off - SledEnd(b), x)]
    ELSE [pre |-> SeqWrite(b.pre \o Nops(b.sled) \o b.post, off, x),
          sled |-> 0,
          post |-> << >>]

----------------------------------------------------------------------------
(* Instructions.                                                           *)

kInvalidInstruction == [opcode |-> 255, argument |-> ToUInt32(-1), is_extended |-> FALSE]

ReadPythonBytecodeUInt16(b, i) == BAt(b, i) + 256 * BAt(b, i + 1)

WritePythonBytecodeUInt16(data) == <<data % 256, (data \div 256) % 256>>

GetInstructionSize(instruction) ==
    IF instruction.is_extended THEN 6
    ELSE IF HAS_ARG(instruction.opcode) THEN 3
    ELSE 1

\* Instruction at offset i, kInvalidInstruction on buffer underflow.
ReadInstruction(b, i) ==
    IF i >= BLen(b) THEN kInvalidInstruction
    ELSE IF BAt(b, i) = EXTENDED_ARG THEN
        IF BLen(b) - i < 6 THEN kInvalidInstruction
        ELSE [opcode |-> BAt(b, i + 3),
              argument |-> MakeUInt32(ReadPythonBytecodeUInt16(b, i + 1),
                                      ReadPythonBytecodeUInt16(b, i + 4)),
              is_extended |-> TRUE]
    ELSE IF HAS_ARG(BAt(b, i)) THEN
        IF BLen(b) - i < 3 THEN kInvalidInstruction
        ELSE [opcode |-> BAt(b, i),
              argument |-> ReadPythonBytecodeUInt16(b, i + 1),
              is_extended |-> FALSE]
    ELSE [opcode |-> BAt(b, i), argument |-> 0, is_extended |-> FALSE]

\* The bytes WriteInstruction stores for an instruction.
WriteInstruction(instruction) ==
    IF instruction.is_extended
      THEN <<EXTENDED_ARG>>
           \o WritePythonBytecodeUInt16(HiUInt16(instruction.argument))
           \o <<instruction.opcode>>
           \o WritePythonBytecodeUInt16(ToUInt16(instruction.argument))
    ELSE IF HAS_ARG(instruction.opcode)
      THEN <<instruction.opcode>>
           \o WritePythonBytecodeUInt16(ToUInt16(instruction.argument))
    ELSE <<instruction.opcode>>

\* A method call that leaves what the callable returned on the stack.
MethodCallBytecode_NoPop(callable_const_index) ==
    <<LOAD_CONST>> \o WritePythonBytecodeUInt16(ToUInt16(callable_const_index))
    \o <<CALL_FUNCTION>> \o WritePythonBytecodeUInt16(0)
    \o <<NOP>>

\* The packed bytes of struct MethodCallBytecode.
MethodCallBytecode(callable_const_index) ==
    <<LOAD_CONST>> \o WritePythonBytecodeUInt16(ToUInt16(callable_const_index))
    \o <<CALL_FUNCTION>> \o WritePythonBytecodeUInt16(0)
    \o <<POP_TOP>>

----------------------------------------------------------------------------
(* InsertMethodCall of bytecode_breakpoint.cc: rewrites the bytecode to    *)
(* invoke the callable at the specified offset.                            *)

\* The branch instruction with its target fixed for an insertion of the
\* method call at "offset"; ok is FALSE where the code returns false.
FixInstruction(instruction, current_offset, offset) ==
    LET size == GetInstructionSize(instruction)
        current_fixed_offset ==
            IF current_offset >= offset THEN current_offset + kMethodCallSize
            ELSE current_offset
    IN
    IF instruction.opcode \in DeltaBranchOpcodes THEN
        LET delta == IF instruction.is_extended
                       THEN ToInt32(instruction.argument)
                       ELSE ToInt16(instruction.argument)
            target0 == current_offset + size + delta
            target == IF target0 > offset THEN target0 + kMethodCallSize ELSE target0
            fixed_delta == target - current_fixed_offset - size
        IN
        IF delta = fixed_delta
          THEN [ok |-> TRUE, update |-> FALSE, instruction |-> instruction]
        ELSE IF instruction.is_extended
          THEN [ok |-> TRUE, update |-> TRUE,
                instruction |-> [instruction EXCEPT !.argument = ToUInt32(fixed_delta)]]
        ELSE IF ToInt16(delta) # delta
          THEN [ok |-> FALSE, update |-> FALSE, instruction |-> instruction]
        ELSE [ok |-> TRUE, update |-> TRUE,
              instruction |-> [instruction EXCEPT !.argument = ToUInt16(fixed_delta)]]
    ELSE IF instruction.opcode \in AbsoluteBranchOpcodes THEN
        IF ToInt32(instruction.argument) > offset
          THEN LET argument == ToUInt32(instruction.argument + kMethodCallSize)
               IN IF ~instruction.is_extended /\ argument > TwoTo16 - 1
                    THEN [ok |-> FALSE, update |-> FALSE, instruction |-> instruction]
                    ELSE [ok |-> TRUE, update |-> TRUE,
                          instruction |-> [instruction EXCEPT !.argument = argument]]
          ELSE [ok |-> TRUE, update |-> FALSE, instruction |-> instruction]
    ELSE [ok |-> TRUE, update |-> FALSE, instruction |-> instruction]

\* The first loop of InsertMethodCall, from current_offset to the end of the
\* bytecode.  A run of NOP bytes is walked in one step: each of them is a
\* 1-byte instruction that is no branch.
RECURSIVE FixBranches(_, _, _, _)
FixBranches(bytecode, current_offset, offset, offset_valid) ==
    IF current_offset >= BLen(bytecode)
      THEN [ok |-> TRUE, bytecode |-> bytecode, offset_valid |-> offset_valid]
    ELSE IF InSled(bytecode, current_offset)
      THEN FixBranches(bytecode, SledEnd(bytecode), offset,
                       offset_valid \/ (offset >= current_offset /\ offset < SledEnd(bytecode)))
    ELSE
      LET instruction == ReadInstruction(bytecode, current_offset)
          fixed == FixInstruction(instruction, current_offset, offset)
      IN
      IF instruction.opcode = kInvalidInstruction.opcode \/ ~fixed.ok
        THEN [ok |-> FALSE, bytecode |-> bytecode, offset_valid |-> offset_valid]
        ELSE FixBranches(
               IF fixed.update
                 THEN BWrite(bytecode, current_offset, WriteInstruction(fixed.instruction))
                 ELSE bytecode,
               current_offset + GetInstructionSize(instruction),
               offset,
               offset_valid \/ current_offset = offset)

\* The loop over the line table: index (0-based) of the row at which
\* current_offset == offset, or -1 when the loop ends without inserting.
RECURSIVE LnotabInsertPos(_, _, _, _)
LnotabInsertPos(lnotab, it, current_offset, offset) ==
    IF current_offset = offset THEN it
    ELSE IF it + 1 < Len(lnotab)
      THEN LnotabInsertPos(lnotab, it + 2, current_offset + lnotab[it + 1], offset)
    ELSE -1

InsertMethodCall(bytecode, has_lnotab, lnotab, offset, callable_const_index) ==
    LET walked == FixBranches(bytecode, 0, offset, FALSE)
        pos == LnotabInsertPos(lnotab, 0, 0, offset)
    IN
    IF ~walked.ok \/ ~walked.offset_valid
      THEN [ok |-> FALSE, bytecode |-> bytecode, lnotab |-> lnotab]
    ELSE IF has_lnotab /\ pos = -1
      THEN [ok |-> FALSE, bytecode |-> bytecode, lnotab |-> lnotab]
    ELSE [ok |-> TRUE,
          bytecode |-> BInsert(walked.bytecode, offset,
                               MethodCallBytecode(callable_const_index)),
          lnotab |-> IF has_lnotab
                       THEN SeqInsert(lnotab, pos, <<kMethodCallSize, 0>>)
                       ELSE lnotab]


----------------------------------------------------------------------------
(* Python objects a code object refers to.                                 *)

NULL == [type |-> "NULL"]

PyTuple(items) == [type |-> "tuple", items |-> items]

\* A string object holding the byte string "bytes".
PyString(bytes) == [type |-> "str", value |-> bytes]

\* PyString_FromStringAndSize on the data of a vector that is kept as a sequence.
PyString_FromVector(s) == PyString(Bytes(s))

\* The bytes of a string as a sequence (PyString_AS_STRING, PyString_GET_SIZE).
PyString_AsVector(o) == o.value.pre \o Nops(o.value.sled) \o o.value.post

PyTuple_CheckExact(o) == o.type = "tuple"

PyString_CheckExact(o) == o.type = "str"

PyTuple_GET_SIZE(o) == Len(o.items)

\* Values on the interpreter stack and in constants tuples are numbers: None,
\* the constants of the programs (1, 2, 3) and, from kFirstCookie upwards, the
\* callable PythonCallback::Wrap returned for the breakpoint of that cookie.
Py_None == 0

PyCFunction_Check(value) == value >= kFirstCookie

\* Creates a new tuple by appending "items" to elements in "tuple".
AppendTuple(tuple, items) == PyTuple(tuple.items \o items)

----------------------------------------------------------------------------
(* CodeObjectLinesEnumerator.                                              *)

\* The while (true) loop of Next.
RECURSIVE NextLoop(_, _)
NextLoop(e, lnotab) ==
    LET entry0 == lnotab[e.next_entry_ + 1]
        entry1 == lnotab[e.next_entry_ + 2]
        stop == (entry0 # 255 \/ entry1 # 0) /\ (entry0 # 0 \/ entry1 # 255)
        moved == [offset_ |-> e.offset_ + entry0,
                  line_number_ |-> e.line_number_ + entry1,
                  remaining_entries_ |-> e.remaining_entries_ - 1,
                  next_entry_ |-> e.next_entry_ + 2]
    IN IF stop THEN [ok |-> TRUE, e |-> moved]
       ELSE IF moved.remaining_entries_ <= 0 THEN [ok |-> FALSE, e |-> moved]
       ELSE NextLoop(moved, lnotab)

LinesEnumeratorNext(e, lnotab) ==
    IF e.remaining_entries_ = 0 THEN [ok |-> FALSE, e |-> e]
    ELSE NextLoop(e, lnotab)

Initialize(firstlineno, lnotab) ==
    LET e == [offset_ |-> 0,
              line_number_ |-> firstlineno,
              remaining_entries_ |-> Len(lnotab) \div 2,
              next_entry_ |-> 0]
    IN IF e.remaining_entries_ > 0 /\ lnotab[1] = 0
         THEN LinesEnumeratorNext(e, lnotab).e
         ELSE e

\* A lookup that takes the line it starts on for any line.
FindLine_AnyLine(e, lnotab, line) == [ok |-> TRUE, e |-> e]

\* "while (lines_enumerator.line_number() != line) if (!Next()) fail" of
\* SetBreakpoint: the enumerator at the first entry of "line".
RECURSIVE FindLine(_, _, _)
FindLine(e, lnotab, line) ==
    IF e.line_number_ = line THEN [ok |-> TRUE, e |-> e]
    ELSE LET n == LinesEnumeratorNext(e, lnotab)
         IN IF ~n.ok THEN [ok |-> FALSE, e |-> n.e]
            ELSE FindLine(n.e, lnotab, line)

----------------------------------------------------------------------------
(* The code objects of the model.                                          *)

\* lo, hi bytes of a 16 bit argument
Arg16(x) == WritePythonBytecodeUInt16(x)

\* def f(): four lines, a conditional, a forward jump and a loop.
\*   line 1    0 LOAD_CONST 1         3 POP_JUMP_IF_FALSE 13
\*   line 2    6 LOAD_CONST 2         9 POP_TOP            10 JUMP_FORWARD 4 (to 17)
\*   line 3   13 LOAD_CONST 3        16 POP_TOP
\*   line 4   17 LOAD_CONST 0        20 POP_JUMP_IF_TRUE 6
\*            23 LOAD_CONST 0        26 RETURN_VALUE
CodeF ==
    [co_code |-> PyString(Bytes(
         <<LOAD_CONST>> \o Arg16(1) \o <<POP_JUMP_IF_FALSE>> \o Arg16(13)
         \o <<LOAD_CONST>> \o Arg16(2) \o <<POP_TOP>> \o <<JUMP_FORWARD>> \o Arg16(4)
         \o <<LOAD_CONST>> \o Arg16(3) \o <<POP_TOP>>
         \o <<LOAD_CONST>> \o Arg16(0) \o <<POP_JUMP_IF_TRUE>> \o Arg16(6)
         \o <<LOAD_CONST>> \o Arg16(0) \o <<RETURN_VALUE>>)),
     co_consts |-> PyTuple(<<Py_None, 1, 2, 3>>),
     co_lnotab |-> PyString_FromVector(<<6, 1, 7, 1, 4, 1>>),
     co_stacksize |-> 1,
     co_firstlineno |-> 1]

\* def g(): one line.
\*   line 1    0 LOAD_CONST 0         3 RETURN_VALUE
CodeG ==
    [co_code |-> PyString(Bytes(<<LOAD_CONST>> \o Arg16(0) \o <<RETURN_VALUE>>)),
     co_consts |-> PyTuple(<<Py_None>>),
     co_lnotab |-> PyString_FromVector(<< >>),
     co_stacksize |-> 1,
     co_firstlineno |-> 1]

\* The branch target in h: the largest that one inserted method call still
\* leaves within 16 bits, and a second one does not.
HugeTarget == TwoTo16 - 1 - kMethodCallSize

\* def h(): more than 64K of bytecode.
\*   line 1    0 LOAD_CONST 1         3 POP_JUMP_IF_FALSE HugeTarget
\*   line 2    6 LOAD_CONST 0         9 POP_TOP
\*   line 3   10 NOP ... NOP
\*            HugeTarget LOAD_CONST 0   RETURN_VALUE
CodeH ==
    [co_code |-> PyString(
         [pre |-> <<LOAD_CONST>> \o Arg16(1) \o <<POP_JUMP_IF_FALSE>> \o Arg16(HugeTarget)
                  \o <<LOAD_CONST>> \o Arg16(0) \o <<POP_TOP>>,
          sled |-> HugeTarget - 10,
          post |-> <<LOAD_CONST>> \o Arg16(0) \o <<RETURN_VALUE>>]),
     co_consts |-> PyTuple(<<Py_None, 1>>),
     co_lnotab |-> PyString_FromVector(<<6, 1, 4, 1>>),
     co_stacksize |-> 1,
     co_firstlineno |-> 1]

\* What a caller may pass as the code object: a code object, a null pointer,
\* or an object that is no code object.
InvalidTargets == {"null", "module"}

Targets == DOMAIN co \cup InvalidTargets

is_null(code_object) == code_object = "null"

PyCode_Check(code_object) == code_object \in DOMAIN co

----------------------------------------------------------------------------
(* Breakpoint status (bytecode_breakpoint.h).                              *)

kUnknown == "kUnknown"
kActive == "kActive"
kInactive == "kInactive"
kDone == "kDone"
kError == "kError"


----------------------------------------------------------------------------
(* BytecodeBreakpoint: the registry.                                       *)

\* CodeObjectBreakpoints of code_object as PreparePatchCodeObject fills it.
NewCodeObjectBreakpoints(code_object) ==
    [breakpoints |-> << >>,
     zombie_refs |-> {},
     original_stacksize |-> co[code_object].co_stacksize,
     original_consts |-> co[code_object].co_consts,
     original_code |-> co[code_object].co_code,
     original_lnotab |-> co[code_object].co_lnotab]

\* ok is FALSE where the code returns nullptr; patches is patches_ afterwards.
PreparePatchCodeObject(code_object) ==
    IF is_null(code_object) \/ ~PyCode_Check(code_object)
      THEN [ok |-> FALSE, patches |-> patches_]
    ELSE IF code_object \in DOMAIN patches_
      THEN [ok |-> TRUE, patches |-> patches_]
    ELSE IF ~PyTuple_CheckExact(co[code_object].co_consts)
      THEN [ok |-> FALSE, patches |-> patches_]
    ELSE IF PyTuple_GET_SIZE(co[code_object].co_consts) >= kMaxCodeObjectConsts
      THEN [ok |-> FALSE, patches |-> patches_]
    ELSE IF ~PyString_CheckExact(co[code_object].co_code)
      THEN [ok |-> FALSE, patches |-> patches_]
    ELSE [ok |-> TRUE,
          patches |-> patches_ @@ (code_object :> NewCodeObjectBreakpoints(code_object))]

\* An insert that puts the entry in twice.
MultimapInsert_Twice(breakpoints, offset, cookie) ==
    <<[offset |-> offset, cookie |-> cookie], [offset |-> offset, cookie |-> cookie]>>
        \o breakpoints

\* std::multimap<int, Breakpoint*, std::greater<int>>::insert: the entries are
\* kept by descending offset, an entry goes after the entries of its offset.
MultimapInsert(breakpoints, offset, cookie) ==
    SeqInsert(breakpoints,
              Cardinality({i \in 1..Len(breakpoints) : breakpoints[i].offset >= offset}),
              <<[offset |-> offset, cookie |-> cookie]>>)

\* An erase loop that erases every entry.
MultimapErase_All(breakpoints, cookie) == << >>

\* An erase loop that erases nothing.
MultimapErase_None(breakpoints, cookie) == breakpoints

\* The entries left after ClearBreakpoint's erase loop.
MultimapErase(breakpoints, cookie) ==
    SelectSeq(breakpoints, LAMBDA entry : entry.cookie # cookie)

\* A failed insertion that is not reported.
ReportError_Silent(errors, cookie) == errors

\* breakpoint.error_callback() of the breakpoint of "cookie", after the
\* error callbacks "errors" of the pass.
ReportError(errors, cookie) == Append(errors, cookie)

\* What an error callback invoked in the loop of PatchCodeObject finds: the
\* attributes the code object has at that point of the pass and the number
\* of breakpoints of the pass the loop has gone through before this one.
ErrorCallbackView(acc, cookie) ==
    [cookie |-> cookie,
     co_code |-> acc.code_object.co_code,
     co_consts |-> acc.code_object.co_consts,
     co_stacksize |-> acc.code_object.co_stacksize,
     processed |-> Len(acc.callbacks)]

\* The body of the loop of PatchCodeObject for the breakpoint of "cookie",
\* "inserted" being what InsertMethodCall returned for it: the callable is
\* added to the callbacks, the new bytecode and line table are kept if the
\* insertion succeeded and the error callback is invoked if not.
PatchBreakpoint(acc, cookie, inserted) ==
    IF inserted.ok
      THEN [bytecode |-> inserted.bytecode,
            lnotab |-> inserted.lnotab,
            callbacks |-> Append(acc.callbacks, cookie),
            errors |-> acc.errors,
            views |-> acc.views,
            code_object |-> acc.code_object]
      ELSE [acc EXCEPT !.callbacks = Append(@, cookie),
                       !.errors = ReportError(@, cookie),
                       !.views = Append(@, ErrorCallbackView(acc, cookie))]

\* The loop of PatchCodeObject over code->breakpoints from entry i on:
\* the bytecode, line table, callbacks and the cookies whose error_callback
\* was invoked, in order.
RECURSIVE PatchLoop(_, _, _, _, _)
PatchLoop(breakpoints, i, const_index, has_lnotab, acc) ==
    IF i > Len(breakpoints) THEN acc
    ELSE PatchLoop(breakpoints, i + 1, const_index + 1, has_lnotab,
                   PatchBreakpoint(acc, breakpoints[i].cookie,
                                   InsertMethodCall(acc.bytecode, has_lnotab, acc.lnotab,
                                                    breakpoints[i].offset, const_index)))

\* A restore that forgets the stack size.
RestoreCodeObject_KeepsStacksize(code, code_object) ==
    [code_object |-> [code_object EXCEPT
                        !.co_consts = code.original_consts,
                        !.co_code = code.original_code,
                        !.co_lnotab = code.original_lnotab],
     code |-> code,
     errors |-> << >>,
     views |-> << >>]

\* "Restoring code object to original state": PatchCodeObject of a record
\* without breakpoints.
RestoreCodeObject(code, code_object) ==
    [code_object |-> [code_object EXCEPT
                        !.co_consts = code.original_consts,
                        !.co_stacksize = code.original_stacksize,
                        !.co_code = code.original_code,
                        !.co_lnotab = code.original_lnotab],
     code |-> [code EXCEPT !.zombie_refs =
                 @ \cup {code_object.co_consts, code_object.co_code}
                   \cup (IF code_object.co_lnotab # NULL
                          THEN {code_object.co_lnotab} ELSE {})],
     errors |-> << >>,
     views |-> << >>]

\* A swap that lets go of the objects it replaces.
SwapCodeObject_NoZombies(code, code_object, has_lnotab, patched) ==
    [code_object |-> [code_object EXCEPT
                        !.co_consts = AppendTuple(code.original_consts, patched.callbacks),
                        !.co_stacksize = code.original_stacksize + 1,
                        !.co_code = PyString(patched.bytecode),
                        !.co_lnotab = IF has_lnotab THEN PyString_FromVector(patched.lnotab) ELSE @],
     code |-> code,
     errors |-> patched.errors,
     views |-> patched.views]

\* The end of PatchCodeObject: the code object gets the constants tuple, the
\* bytecode string and the line table "patched" that the loop made, and the
\* objects it referred to go to the zombie pool.
SwapCodeObject(code, code_object, has_lnotab, patched) ==
    [code_object |-> [code_object EXCEPT
                        !.co_consts = AppendTuple(code.original_consts, patched.callbacks),
                        !.co_stacksize = code.original_stacksize + 1,
                        !.co_code = PyString(patched.bytecode),
                        !.co_lnotab = IF has_lnotab THEN PyString_FromVector(patched.lnotab) ELSE @],
     code |-> [code EXCEPT !.zombie_refs =
                 @ \cup {code_object.co_consts, code_object.co_code}
                   \cup (IF has_lnotab THEN {code_object.co_lnotab} ELSE {})],
     errors |-> patched.errors,
     views |-> patched.views]

\* PatchCodeObject on the record "code" of a code object with attributes
\* "code_object": the attributes and the record afterwards, and the cookies
\* whose error_callback it invoked.  zombie_refs is the set of the objects the
\* vector references: it is only pushed to and tested for emptiness.
PatchCodeObject(code, code_object) ==
    IF code.breakpoints = << >> THEN RestoreCodeObject(code, code_object)
    ELSE
      LET has_lnotab == code.original_lnotab # NULL
                        /\ PyString_CheckExact(code.original_lnotab)
      IN
      SwapCodeObject(code, code_object, has_lnotab,
                     PatchLoop(code.breakpoints, 1,
                               PyTuple_GET_SIZE(code.original_consts), has_lnotab,
                               [bytecode |-> code.original_code.value,
                                lnotab |-> IF has_lnotab
                                             THEN PyString_AsVector(code.original_lnotab)
                                             ELSE << >>,
                                callbacks |-> << >>,
                                errors |-> << >>,
                                views |-> << >>,
                                code_object |-> code_object]))


\* A map without the key k.
MapErase(m, k) == [x \in DOMAIN m \ {k} |-> m[x]]

EmptyMap == [x \in {} |-> x]

\* What the caller of an operation observed: the operation, its code object,
\* the cookie returned or passed, the error callbacks invoked during the call
\* (by cookie; -1 is the error_callback of a SetBreakpoint that issued no
\* cookie) and the hit callbacks invoked.  error_views is what the error
\* callbacks of a patch found when they were invoked.
Observed(op, code_object, cookie, error_callbacks, hit_callbacks) ==
    [op |-> op, code_object |-> code_object, cookie |-> cookie,
     error_callbacks |-> error_callbacks, hit_callbacks |-> hit_callbacks,
     error_views |-> << >>]

\* Breakpoint::status of a new breakpoint.
StatusOnCreate == kInactive

\* Breakpoint::status of the breakpoints in "st" after a patch of code object
\* "id" that invoked the error callbacks "errors": a breakpoint that is not
\* kInactive is kActive if its method call was inserted and kError if not.
StatusAfterPatch(st, breakpoints, id, errors) ==
    [cookie \in DOMAIN st |->
        IF breakpoints[cookie].code_object # id \/ st[cookie] = kInactive
          THEN st[cookie]
        ELSE IF \E i \in 1..Len(errors) : errors[i] = cookie THEN kError
        ELSE kActive]

\* PythonCallback::Wrap: the callable of a new breakpoint invokes its callback.
Wrap(callbacks, cookie) == callbacks @@ (cookie :> TRUE)

\* PythonCallback::Disable
Disable(callbacks, cookie) == [callbacks EXCEPT ![cookie] = FALSE]

\* A counter that is not advanced.
NextCookie_Same(counter) == counter

\* cookie_counter_++
NextCookie(counter) == counter + 1

\* A lookup in the line table the code object has now.
LookupLineTable_Current(code_object_breakpoints, code_object) ==
    co[code_object].co_lnotab

\* The line table SetBreakpoint looks the line up in: "We use original line
\* table in case code_object is already patched with another breakpoint."
LookupLineTable(code_object_breakpoints, code_object) ==
    code_object_breakpoints.original_lnotab

SetBreakpoint(code_object, line) ==
    LET prepared == PreparePatchCodeObject(code_object)
    IN
    \/ /\ ~prepared.ok
       /\ last' = Observed("SetBreakpoint", code_object, -1, <<-1>>, << >>)
       /\ UNCHANGED <<co, cookie_counter_, cookie_map_, patches_, status, callback_, frame>>
    \/ /\ prepared.ok
       /\ LET code_object_breakpoints == prepared.patches[code_object]
              lnotab == PyString_AsVector(LookupLineTable(code_object_breakpoints,
                                                          code_object))
              lines_enumerator ==
                  FindLine(Initialize(co[code_object].co_firstlineno, lnotab), lnotab, line)
          IN
          \/ /\ ~lines_enumerator.ok
             /\ patches_' = prepared.patches
             /\ last' = Observed("SetBreakpoint", code_object, -1, <<-1>>, << >>)
             /\ UNCHANGED <<co, cookie_counter_, cookie_map_, status, callback_, frame>>
          \/ /\ lines_enumerator.ok
             /\ cookie_counter_ < kFirstCookie + MaxBreakpoints
             /\ LET cookie == cookie_counter_
                    breakpoint == [code_object |-> code_object,
                                   offset |-> lines_enumerator.e.offset_,
                                   cookie |-> cookie]
                    registered == [code_object_breakpoints EXCEPT !.breakpoints =
                                     MultimapInsert(@, breakpoint.offset, cookie)]
                IN
                \E patched \in {PatchCodeObject(registered, co[code_object])} :
                /\ cookie_counter_' = NextCookie(cookie_counter_)
                /\ callback_' = Wrap(callback_, cookie)
                /\ cookie_map_' = cookie_map_ @@ (cookie :> breakpoint)
                /\ patches_' = [prepared.patches EXCEPT ![code_object] = patched.code]
                /\ co' = [co EXCEPT ![code_object] = patched.code_object]
                /\ status' = StatusAfterPatch(status @@ (cookie :> StatusOnCreate),
                                              cookie_map_', code_object, patched.errors)
                /\ last' = [Observed("SetBreakpoint", code_object, cookie,
                                     patched.errors, << >>)
                              EXCEPT !.error_views = patched.views]
                /\ UNCHANGED frame

\* A clear that forgets every breakpoint when it is given a cookie it does
\* not know.
ClearBreakpoint_UnknownClearsAll(cookie) ==
    /\ cookie_map_' = IF cookie \in DOMAIN cookie_map_
                        THEN MapErase(cookie_map_, cookie) ELSE EmptyMap
    /\ status' = IF cookie \in DOMAIN cookie_map_
                   THEN MapErase(status, cookie) ELSE EmptyMap
    /\ last' = Observed("ClearBreakpoint", "", cookie, << >>, << >>)
    /\ UNCHANGED <<co, cookie_counter_, patches_, callback_, frame>>

ClearBreakpoint(cookie) ==
    \/ /\ cookie \notin DOMAIN cookie_map_
       /\ last' = Observed("ClearBreakpoint", "", cookie, << >>, << >>)
       /\ UNCHANGED <<co, cookie_counter_, cookie_map_, patches_, status, callback_, frame>>
    \/ /\ cookie \in DOMAIN cookie_map_
       /\ LET id == cookie_map_[cookie].code_object
              code == [patches_[id] EXCEPT !.breakpoints = MultimapErase(@, cookie)]
          IN
          /\ id \in DOMAIN patches_
          /\ \E patched \in {PatchCodeObject(code, co[id])} :
              /\ co' = [co EXCEPT ![id] = patched.code_object]
              /\ patches_' = IF patched.code.breakpoints = << >> /\ patched.code.zombie_refs = {}
                               THEN MapErase(patches_, id)
                               ELSE [patches_ EXCEPT ![id] = patched.code]
              /\ cookie_map_' = MapErase(cookie_map_, cookie)
              /\ status' = StatusAfterPatch(MapErase(status, cookie), cookie_map_', id,
                                            patched.errors)
              /\ last' = [Observed("ClearBreakpoint", id, cookie, patched.errors, << >>)
                            EXCEPT !.error_views = patched.views]
              /\ UNCHANGED <<cookie_counter_, callback_, frame>>

Detach ==
    /\ co' = [id \in DOMAIN co |->
                IF id \in DOMAIN patches_
                  THEN PatchCodeObject([patches_[id] EXCEPT !.breakpoints = << >>],
                                       co[id]).code_object
                  ELSE co[id]]
    /\ patches_' = EmptyMap
    /\ cookie_map_' = EmptyMap
    /\ status' = EmptyMap
    /\ last' = Observed("Detach", "", 0, << >>, << >>)
    /\ UNCHANGED <<cookie_counter_, callback_, frame>>

\* GetBreakpointStatus
GetBreakpointStatus(cookie) ==
    IF cookie \in DOMAIN cookie_map_ THEN status[cookie] ELSE kUnknown

\* ActivateBreakpoint: an inactive breakpoint is activated by patching its
\* code object; any other cookie is ignored.
ActivateBreakpoint(cookie) ==
    \/ /\ GetBreakpointStatus(cookie) # kInactive
       /\ last' = Observed("ActivateBreakpoint", "", cookie, << >>, << >>)
       /\ UNCHANGED <<co, cookie_counter_, cookie_map_, patches_, status, callback_, frame>>
    \/ /\ GetBreakpointStatus(cookie) = kInactive
       /\ LET id == cookie_map_[cookie].code_object
          IN
          \E patched \in {PatchCodeObject(patches_[id], co[id])} :
          /\ co' = [co EXCEPT ![id] = patched.code_object]
          /\ patches_' = [patches_ EXCEPT ![id] = patched.code]
          /\ status' = StatusAfterPatch([status EXCEPT ![cookie] = kActive],
                                        cookie_map_, id, patched.errors)
          /\ last' = [Observed("ActivateBreakpoint", id, cookie, patched.errors, << >>)
                        EXCEPT !.error_views = patched.views]
          /\ UNCHANGED <<cookie_counter_, cookie_map_, callback_, frame>>


----------------------------------------------------------------------------
(* The interpreter: one frame executing a code object.  The frame holds    *)
(* the bytecode and constants the code object had when it was called, as   *)
(* the interpreter does, and next to them the execution of the function as *)
(* written (the o... fields), which takes the same branches.               *)

\* The code objects as written.
Programs(world) ==
    IF world = "huge" THEN ("g" :> CodeG) @@ ("h" :> CodeH) ELSE "f" :> CodeF

Original(id) == IF id = "h" THEN CodeH ELSE IF id = "g" THEN CodeG ELSE CodeF

NoFrame ==
    [code_object |-> "", state |-> "none", co_code |-> Bytes(<< >>), co_consts |-> << >>,
     pc |-> 0, stack |-> << >>, called |-> FALSE, retval |-> Py_None,
     ostate |-> "none", opc |-> 0, ostack |-> << >>, oretval |-> Py_None,
     fired |-> << >>]

\* PyEval of a code object starts a frame on its current co_code and co_consts.
Call(id) ==
    /\ frame.state # "running"
    /\ frame' = [NoFrame EXCEPT !.code_object = id,
                                !.state = "running",
                                !.ostate = "running",
                                !.co_code = co[id].co_code.value,
                                !.co_consts = co[id].co_consts.items]
    /\ last' = Observed("Call", id, 0, << >>, << >>)
    /\ UNCHANGED <<co, cookie_counter_, cookie_map_, patches_, status, callback_>>

Pop(stack) == SubSeq(stack, 1, Len(stack) - 1)

Top(stack) == stack[Len(stack)]

\* The offset after the instruction at pc; a run of NOPs is executed as one
\* instruction.
NextOffset(code, pc) ==
    IF InSled(code, pc) THEN SledEnd(code)
    ELSE pc + GetInstructionSize(ReadInstruction(code, pc))

\* The effect of one instruction on (pc, stack): state "crashed" stands for
\* what the interpreter does with bytecode it cannot execute.
Execute(code, consts, pc, stack, branch) ==
    LET instruction == ReadInstruction(code, pc)
        next == NextOffset(code, pc)
        opcode == instruction.opcode
        crashed == [state |-> "crashed", pc |-> pc, stack |-> stack, retval |-> Py_None]
        running(to, st) == [state |-> "running", pc |-> to, stack |-> st, retval |-> Py_None]
    IN
    IF opcode = NOP THEN running(next, stack)
    ELSE IF opcode = LOAD_CONST THEN
        IF instruction.argument < Len(consts)
          THEN running(next, Append(stack, consts[instruction.argument + 1]))
          ELSE crashed
    ELSE IF opcode = JUMP_FORWARD THEN running(next + instruction.argument, stack)
    ELSE IF stack = << >> THEN crashed
    ELSE IF opcode = POP_TOP THEN running(next, Pop(stack))
    ELSE IF opcode = POP_JUMP_IF_FALSE THEN
        running(IF branch THEN next ELSE instruction.argument, Pop(stack))
    ELSE IF opcode = POP_JUMP_IF_TRUE THEN
        running(IF branch THEN instruction.argument ELSE next, Pop(stack))
    ELSE IF opcode = RETURN_VALUE THEN
        [state |-> "returned", pc |-> pc, stack |-> Pop(stack), retval |-> Top(stack)]
    ELSE crashed

\* The frame is at a step of an inserted method call: it loads a callable,
\* calls it, or pops what the call returned.
InMethodCall(f) ==
    LET instruction == ReadInstruction(f.co_code, f.pc)
    IN \/ /\ instruction.opcode = LOAD_CONST
          /\ instruction.argument < Len(f.co_consts)
          /\ PyCFunction_Check(f.co_consts[instruction.argument + 1])
       \/ instruction.opcode = CALL_FUNCTION
       \/ instruction.opcode = POP_TOP /\ f.called

\* PythonCallback::Run of the callable of "cookie": the hit callbacks invoked.
Run(cookie) == IF callback_[cookie] THEN <<cookie>> ELSE << >>

\* The frame of a function that returned (or crashed) keeps what it returned
\* and drops its references to the bytecode, the constants and the stack.
Finished(id, real, orig) ==
    [NoFrame EXCEPT !.code_object = id,
                    !.state = real.state, !.retval = real.retval,
                    !.ostate = orig.state, !.oretval = orig.retval]

Step ==
    /\ frame.state = "running"
    /\ LET instruction == ReadInstruction(frame.co_code, frame.pc)
           next == NextOffset(frame.co_code, frame.pc)
       IN
       IF InMethodCall(frame) THEN
         IF instruction.opcode = CALL_FUNCTION THEN
           IF frame.stack # << >> /\ PyCFunction_Check(Top(frame.stack))
                /\ instruction.argument = 0
             THEN /\ frame' = [frame EXCEPT !.pc = next,
                                            !.stack = Append(Pop(@), Py_None),
                                            !.called = TRUE,
                                            !.fired = @ \o Run(Top(frame.stack))]
                  /\ last' = Observed("Step", frame.code_object, 0, << >>,
                                      Run(Top(frame.stack)))
             ELSE /\ frame' = Finished(frame.code_object, [state |-> "crashed", retval |-> Py_None],
                                       [state |-> frame.ostate, retval |-> frame.oretval])
                  /\ last' = Observed("Step", frame.code_object, 0, << >>, << >>)
         ELSE
           \E real \in {Execute(frame.co_code, frame.co_consts, frame.pc, frame.stack, TRUE)} :
              /\ frame' = IF real.state = "running"
                           THEN [frame EXCEPT !.pc = real.pc, !.stack = real.stack,
                                              !.called = FALSE]
                           ELSE Finished(frame.code_object, real,
                                         [state |-> frame.ostate, retval |-> frame.oretval])
              /\ last' = Observed("Step", frame.code_object, 0, << >>, << >>)
       ELSE
         \E branch \in BOOLEAN :
           \E real \in {Execute(frame.co_code, frame.co_consts, frame.pc, frame.stack, branch)},
              orig \in {Execute(Original(frame.code_object).co_code.value,
                                Original(frame.code_object).co_consts.items,
                                frame.opc, frame.ostack, branch)} :
              /\ frame' = IF real.state = "running"
                           THEN [frame EXCEPT !.pc = real.pc, !.stack = real.stack,
                                              !.called = FALSE,
                                              !.ostate = orig.state,
                                              !.opc = orig.pc, !.ostack = orig.stack,
                                              !.oretval = orig.retval,
                                              !.fired = << >>]
                           ELSE Finished(frame.code_object, real, orig)
              /\ last' = Observed("Step", frame.code_object, 0, << >>, << >>)
    /\ UNCHANGED <<co, cookie_counter_, cookie_map_, patches_, status, callback_>>

----------------------------------------------------------------------------
(* The debugger of a process: breakpoints are set, activated and cleared   *)
(* while the program runs.                                                 *)

InitWorld(world) ==
    /\ co = Programs(world)
    /\ cookie_counter_ = kFirstCookie
    /\ cookie_map_ = EmptyMap
    /\ patches_ = EmptyMap
    /\ status = EmptyMap
    /\ callback_ = EmptyMap
    /\ frame = NoFrame
    /\ last = Observed("BytecodeBreakpoint", "", 0, << >>, << >>)

\* The program is f alone, or g and h.
Init ==
    /\ \E world \in {"small", "huge"} : InitWorld(world)
    /\ manipulator = Idle
    /\ bucket = Idle
    /\ tracer = Idle
    /\ thread = Idle
    /\ conditional = Idle
    /\ codec = Idle
    /\ thread_breakpoints = Idle

\* Cookies a caller may pass: those issued so far, the next one and -1.
Cookies == kFirstCookie..(kFirstCookie + MaxBreakpoints) \cup {-1}

\* The debugger's thread sets, activates and clears breakpoints between the
\* calls of the program; while a call is running it is scheduled to clear
\* breakpoints and to detach.
Next ==
    \/ /\ frame.state # "running"
       /\ \E code_object \in Targets, line \in 0..MaxLine : SetBreakpoint(code_object, line)
       /\ UNCHANGED <<manipulator, bucket, tracer, thread, conditional, codec, thread_breakpoints>>
    \/ /\ frame.state # "running"
       /\ \E cookie \in Cookies : ActivateBreakpoint(cookie)
       /\ UNCHANGED <<manipulator, bucket, tracer, thread, conditional, codec, thread_breakpoints>>
    \/ /\ frame.state # "running" \/ last.op = "Step"
       /\ \E cookie \in Cookies : ClearBreakpoint(cookie)
       /\ UNCHANGED <<manipulator, bucket, tracer, thread, conditional, codec, thread_breakpoints>>
    \/ /\ frame.state # "running"
       /\ Detach
       /\ UNCHANGED <<manipulator, bucket, tracer, thread, conditional, codec, thread_breakpoints>>
    \/ /\ \E id \in DOMAIN co : Call(id)
       /\ UNCHANGED <<manipulator, bucket, tracer, thread, conditional, codec, thread_breakpoints>>
    \/ /\ Step
       /\ UNCHANGED <<manipulator, bucket, tracer, thread, conditional, codec, thread_breakpoints>>

Spec == Init /\ [][Next]_vars


----------------------------------------------------------------------------
(* Properties.                                                             *)

\* The number of times x occurs in the sequence s.
Count(s, x) == Cardinality({i \in 1..Len(s) : s[i] = x})

\* The elements of the sequence s.
Range(s) == {s[i] : i \in 1..Len(s)}

\* The breakpoints registered in the multimap of code object id.
Registered(patches, id) ==
    IF id \in DOMAIN patches THEN patches[id].breakpoints ELSE << >>

\* The source lines that have an entry in a line table: the first line, and
\* the line after each row.
RECURSIVE SumLineDeltas(_, _)
SumLineDeltas(lnotab, rows) ==
    IF rows = 0 THEN 0 ELSE SumLineDeltas(lnotab, rows - 1) + lnotab[2 * rows]

LineTableLines(code) ==
    LET lnotab == PyString_AsVector(code.co_lnotab)
    IN {code.co_firstlineno + SumLineDeltas(lnotab, rows) : rows \in 0..(Len(lnotab) \div 2)}

\* C1: after Detach returns, the bytecode, constants, line table and stack
\* size of every code object are those of the program as written, whatever
\* breakpoints were set, activated and cleared before, and the registry holds
\* no breakpoint and no record of a code object.
C1_DetachRestoresOriginals ==
    last.op = "Detach" =>
        /\ \A id \in DOMAIN co : co[id] = Original(id)
        /\ DOMAIN cookie_map_ = {}
        /\ DOMAIN patches_ = {}

\* Detach has returned after every breakpoint the bound allows was created.
C1_Witness ==
    /\ last.op = "Detach"
    /\ cookie_counter_ = kFirstCookie + MaxBreakpoints

\* C3: a SetBreakpoint that succeeds returns the value of the cookie counter,
\* which is positive, and advances the counter; no operation, Detach and
\* ClearBreakpoint included, ever lowers the counter: a cookie returned is
\* larger than every cookie returned before it.
C3_CookiesNeverReused ==
    [][/\ cookie_counter_' >= cookie_counter_
       /\ (last'.op = "SetBreakpoint" /\ last'.cookie # -1) =>
             /\ last'.cookie > 0
             /\ last'.cookie = cookie_counter_
             /\ cookie_counter_' > last'.cookie
             /\ last'.cookie \notin DOMAIN cookie_map_]_vars

\* A second cookie is returned after the first one is no longer registered.
C3_Witness ==
    /\ last.op = "SetBreakpoint"
    /\ last.cookie = kFirstCookie + 1
    /\ kFirstCookie \notin DOMAIN cookie_map_

\* C4: SetBreakpoint on a null pointer, on an object that is no code object,
\* or on a line that has no entry in the line table of the code object as
\* written, returns -1, invokes the error callback of the call and no hit
\* callback, registers no breakpoint and leaves the code object alone.
C4_FailedCreate ==
    [][\A code_object \in Targets, line \in 0..MaxLine :
          (/\ last'.op = "SetBreakpoint"
           /\ last'.code_object = code_object
           /\ \/ code_object \in InvalidTargets
              \/ line \notin LineTableLines(Original(code_object))
           /\ SetBreakpoint(code_object, line)) =>
             /\ last'.cookie = -1
             /\ last'.error_callbacks = <<-1>>
             /\ last'.hit_callbacks = << >>
             /\ cookie_map_' = cookie_map_
             /\ status' = status
             /\ \A id \in DOMAIN co : Registered(patches_', id) = Registered(patches_, id)
             /\ co' = co]_vars

\* A create on a line that f does not have failed while f was patched with a
\* breakpoint.
C4_Witness ==
    /\ last.op = "SetBreakpoint"
    /\ last.cookie = -1
    /\ last.code_object = "f"
    /\ Len(Registered(patches_, "f")) = 1


\* The frame f runs the bytecode and constants that code objects c have now.
FrameCurrentIn(f, c) ==
    /\ f.state = "running"
    /\ f.co_code = c[f.code_object].co_code.value
    /\ f.co_consts = c[f.code_object].co_consts.items

FrameCurrent == FrameCurrentIn(frame, co)

\* The frame is about to execute an instruction of the function as written.
AtOriginalInstruction(f) == f.state = "running" /\ ~InMethodCall(f)

\* s contains the sequence pattern.
Contains(s, pattern) ==
    \E i \in 1..(Len(s) - Len(pattern) + 1) : SubSeq(s, i, i + Len(pattern) - 1) = pattern

\* The code object with attributes code_object calls the callable of the
\* cookie: its constants hold the callable and its bytecode holds a method
\* call on the index of that constant.
Injected(code_object, cookie) ==
    \E index \in 1..Len(code_object.co_consts.items) :
        /\ code_object.co_consts.items[index] = cookie
        /\ \/ Contains(code_object.co_code.value.pre, MethodCallBytecode(index - 1))
           \/ Contains(code_object.co_code.value.post, MethodCallBytecode(index - 1))

\* The cookies of the multimap entries, in order.
CookiesOf(breakpoints) == [i \in 1..Len(breakpoints) |-> breakpoints[i].cookie]

\* The targets of the absolute branches of the programs as written.
BranchTargets(id) == IF id = "h" THEN {HugeTarget} ELSE IF id = "f" THEN {13, 6} ELSE {}

\* The method calls of all the breakpoints that "breakpoints" registers for
\* the code object fit into it: none of its branch targets moves past what a
\* 16 bit argument holds.
Fits(id, breakpoints) ==
    \A target \in BranchTargets(id) :
        target + kMethodCallSize
                   * Cardinality({cookie \in DOMAIN breakpoints :
                                     /\ breakpoints[cookie].code_object = id
                                     /\ breakpoints[cookie].offset < target})
            < TwoTo16

C5_NoHitBeforeActivate ==
    \A cookie \in Range(last.hit_callbacks) : GetBreakpointStatus(cookie) # kInactive

\* C6: ActivateBreakpoint of an inactive breakpoint patches the code object
\* with the callables of all its breakpoints, each of them called by the
\* bytecode or reported to its error callback, and leaves the breakpoint
\* active if the bytecode calls its callable and in error if not; for any
\* other cookie it changes no status, no code object and no registry map.
C6_Activate ==
    [][\A cookie \in Cookies :
          (last'.op = "ActivateBreakpoint" /\ last'.cookie = cookie) =>
             IF GetBreakpointStatus(cookie) = kInactive
               THEN LET id == cookie_map_[cookie].code_object
                    IN /\ cookie_map_' = cookie_map_
                       /\ co'[id].co_consts.items =
                             Original(id).co_consts.items \o CookiesOf(Registered(patches_, id))
                       /\ \A other \in Range(CookiesOf(Registered(patches_, id))) :
                             Injected(co'[id], other)
                                 # (other \in Range(last'.error_callbacks))
                       /\ status'[cookie] =
                             IF Injected(co'[id], cookie) THEN kActive ELSE kError
               ELSE /\ UNCHANGED <<co, cookie_map_, patches_, status, callback_>>
                    /\ last'.error_callbacks = << >>]_vars

\* ActivateBreakpoint left a breakpoint of h in error.
C6_Witness ==
    /\ last.op = "ActivateBreakpoint"
    /\ last.code_object = "h"
    /\ GetBreakpointStatus(last.cookie) = kError


\* The breakpoints of the code object of "cookie" other than "cookie".
Siblings(cookie) ==
    {other \in DOMAIN cookie_map_ \ {cookie} :
        cookie_map_[other].code_object = cookie_map_[cookie].code_object}

\* What C7 says of calls and of cookies that were never issued: such a cookie
\* has status kUnknown; a call starts on constants that hold the callable of
\* no breakpoint that is not registered, and invokes callables of its
\* constants only.
C7_UnknownAndLaterCalls ==
    /\ \A cookie \in Cookies :
          (cookie = -1 \/ cookie >= cookie_counter_) => GetBreakpointStatus(cookie) = kUnknown
    /\ last'.op = "Call" =>
          \A value \in Range(frame'.co_consts) :
              PyCFunction_Check(value) => value \in DOMAIN cookie_map_'
    /\ last'.op = "Step" => Range(last'.hit_callbacks) \subseteq Range(frame.co_consts)

\* C7 as stated: after ClearBreakpoint(cookie) the status of the cookie is
\* kUnknown and calls started later never invoke its hit callback, and every
\* other breakpoint of the code object has the status it had and, if active,
\* is called by the new bytecode.
C7_ClearKeepsEveryStatus ==
    [][/\ C7_UnknownAndLaterCalls
       /\ \A cookie \in DOMAIN cookie_map_ :
             (last'.op = "ClearBreakpoint" /\ last'.cookie = cookie) =>
                /\ GetBreakpointStatus(cookie)' = kUnknown
                /\ \A other \in Siblings(cookie) :
                      /\ status'[other] = status[other]
                      /\ status'[other] = kActive
                            => Injected(co'[cookie_map_[cookie].code_object], other)]_vars

\* C7, amended: as above, but a sibling in error may become active; a sibling
\* that is active or inactive keeps its status.
C7_ClearKeepsOthers ==
    [][/\ C7_UnknownAndLaterCalls
       /\ \A cookie \in DOMAIN cookie_map_ :
             (last'.op = "ClearBreakpoint" /\ last'.cookie = cookie) =>
                /\ GetBreakpointStatus(cookie)' = kUnknown
                /\ \A other \in Siblings(cookie) :
                      /\ status[other] # kError => status'[other] = status[other]
                      /\ status[other] = kError => status'[other] \in {kError, kActive}
                      /\ status'[other] = kActive
                            => Injected(co'[cookie_map_[cookie].code_object], other)]_vars

\* ClearBreakpoint returned and left an active breakpoint on the code object.
C7_Witness ==
    /\ last.op = "ClearBreakpoint"
    /\ last.code_object = "f"
    /\ last.cookie \notin DOMAIN cookie_map_
    /\ \E other \in DOMAIN cookie_map_ :
          /\ cookie_map_[other].code_object = "f"
          /\ status[other] = kActive
          /\ Injected(co["f"], other)

\* C8: ClearBreakpoint with a cookie that is not registered (-1, a cookie
\* never issued, a cookie cleared before) changes no code object, registry
\* map, record, status, callable or frame and invokes no callback.
C8_ClearUnknownIsNoOp ==
    [][\A cookie \in Cookies :
          (/\ last'.op = "ClearBreakpoint"
           /\ last'.cookie = cookie
           /\ cookie \notin DOMAIN cookie_map_) =>
             /\ UNCHANGED <<co, cookie_counter_, cookie_map_, patches_, status,
                            callback_, frame>>
             /\ last'.error_callbacks = << >>
             /\ last'.hit_callbacks = << >>]_vars

\* ClearBreakpoint was given a cookie that was cleared before, while another
\* breakpoint is registered.
C8_Witness ==
    /\ last.op = "ClearBreakpoint"
    /\ last.code_object = ""
    /\ last.cookie = kFirstCookie
    /\ cookie_counter_ > kFirstCookie + 1
    /\ DOMAIN cookie_map_ = {kFirstCookie + 1}

\* C9: the hit callback of a breakpoint that has been cleared is not invoked,
\* also not by a frame that runs the bytecode the clear replaced.
C9_NoHitAfterClear ==
    \A cookie \in Range(last.hit_callbacks) : cookie \in DOMAIN cookie_map_

\* C10: when ClearBreakpoint returns and the method calls of the remaining
\* breakpoints of the code object fit into it, every remaining breakpoint
\* that was in error or active is active and called by the bytecode; a
\* breakpoint that was active is active in any case.
C10_ErrorRecovers ==
    [][\A cookie \in DOMAIN cookie_map_ :
          (last'.op = "ClearBreakpoint" /\ last'.cookie = cookie) =>
             \A other \in Siblings(cookie) :
                /\ status[other] = kActive => status'[other] = kActive
                /\ (status[other] \in {kError, kActive}
                    /\ Fits(cookie_map_[cookie].code_object, cookie_map_')) =>
                      /\ status'[other] = kActive
                      /\ Injected(co'[cookie_map_[cookie].code_object], other)]_vars

\* The first breakpoint of h was cleared; the second one, on line 1, whose
\* method call did not fit while the first one was there, is active.
C10_Witness ==
    /\ last.op = "ClearBreakpoint"
    /\ last.code_object = "h"
    /\ last.cookie = kFirstCookie
    /\ DOMAIN cookie_map_ = {kFirstCookie + 1}
    /\ cookie_map_[kFirstCookie + 1].code_object = "h"
    /\ cookie_map_[kFirstCookie + 1].offset = 0
    /\ status[kFirstCookie + 1] = kActive

\* C11: an error callback of a patch is invoked after the pass has gone
\* through all breakpoints of the code object and after the new bytecode,
\* constants and stack size have been put into the code object: what the
\* callback finds in the code object is what the operation leaves there.
C11_ErrorCallbackAfterSwap ==
    \A i \in 1..Len(last.error_views) :
        /\ last.error_views[i].co_code = co[last.code_object].co_code
        /\ last.error_views[i].co_consts = co[last.code_object].co_consts
        /\ last.error_views[i].co_stacksize = co[last.code_object].co_stacksize

\* The places of the breakpoint of "cookie" in the multimaps: code object
\* and index of every entry that refers to it.
EntriesOf(cookie) ==
    UNION {{<<id, i>> : i \in {j \in 1..Len(patches_[id].breakpoints) :
                                 patches_[id].breakpoints[j].cookie = cookie}} :
           id \in DOMAIN patches_}

\* The multimaps and the cookie map hold the same breakpoints: a registered
\* breakpoint has one entry, in the multimap of its code object and under
\* its offset, and an entry is the entry of a registered breakpoint.
MultimapConsistent ==
    /\ \A cookie \in DOMAIN cookie_map_ :
          /\ Cardinality(EntriesOf(cookie)) = 1
          /\ \A entry \in EntriesOf(cookie) :
                /\ entry[1] = cookie_map_[cookie].code_object
                /\ patches_[entry[1]].breakpoints[entry[2]].offset
                      = cookie_map_[cookie].offset
    /\ \A id \in DOMAIN patches_ :
          \A i \in 1..Len(patches_[id].breakpoints) :
              patches_[id].breakpoints[i].cookie \in DOMAIN cookie_map_

\* C26: after every operation each registered breakpoint has exactly one
\* entry in the multimaps, in the multimap of its own code object and under
\* its recorded offset, every entry of a multimap is the entry of a
\* registered breakpoint, and a ClearBreakpoint of a registered cookie takes
\* exactly one entry out of the multimap of its code object.
C26_MultimapMatchesCookieMap ==
    [][/\ MultimapConsistent'
       /\ \A cookie \in DOMAIN cookie_map_ :
             (last'.op = "ClearBreakpoint" /\ last'.cookie = cookie) =>
                Len(Registered(patches_', cookie_map_[cookie].code_object))
                  = Len(Registered(patches_, cookie_map_[cookie].code_object)) - 1]_vars

\* The second of two breakpoints on line 2 of f was cleared; the first one
\* is still there.
C26_Witness ==
    /\ last.op = "ClearBreakpoint"
    /\ last.cookie = kFirstCookie + 1
    /\ last.code_object = "f"
    /\ Registered(patches_, "f") = <<[offset |-> 6, cookie |-> kFirstCookie]>>

\* C27: the registry has a record of a code object only while the code
\* object has a breakpoint or objects on its zombie list: a SetBreakpoint
\* that fails leaves no record behind.
C27_RecordOnlyWhileUsed ==
    \A id \in DOMAIN patches_ :
        patches_[id].breakpoints # << >> \/ patches_[id].zombie_refs # {}

\* The attributes of a code object that a patch replaces by new objects.
ReplacedAttributes == {"co_code", "co_consts", "co_lnotab"}

\* C28: an object that SetBreakpoint, ActivateBreakpoint or ClearBreakpoint
\* replaces in a code object is on the zombie list of the code object
\* afterwards, and none of them takes an object off a zombie list or removes
\* the record of a code object whose zombie list is not empty.
C28_ZombiesKept ==
    [][last'.op # "Detach" =>
         \A id \in DOMAIN co :
            /\ (id \in DOMAIN patches_ /\ patches_[id].zombie_refs # {}) =>
                  /\ id \in DOMAIN patches_'
                  /\ patches_[id].zombie_refs \subseteq patches_'[id].zombie_refs
            /\ \A attribute \in ReplacedAttributes :
                  co'[id][attribute] # co[id][attribute] =>
                     /\ id \in DOMAIN patches_'
                     /\ co[id][attribute] \in patches_'[id].zombie_refs]_vars

\* The last breakpoint of f was cleared: f is as written again and its
\* record stays, with the objects of the patches on the zombie list.
C28_Witness ==
    /\ last.op = "ClearBreakpoint"
    /\ last.code_object = "f"
    /\ co["f"] = Original("f")
    /\ "f" \in DOMAIN patches_
    /\ patches_["f"].breakpoints = << >>
    /\ Cardinality(patches_["f"].zombie_refs) >= 5

RECURSIVE SumOffsetDeltas(_, _)
SumOffsetDeltas(lnotab, rows) ==
    IF rows = 0 THEN 0 ELSE SumOffsetDeltas(lnotab, rows - 1) + lnotab[2 * rows - 1]

\* The rows of the line table of "code" after which the line is "line"
\* (row 0 is the start of the code object).
RowsOfLine(code, line) ==
    LET lnotab == PyString_AsVector(code.co_lnotab)
    IN {rows \in 0..(Len(lnotab) \div 2) :
            code.co_firstlineno + SumLineDeltas(lnotab, rows) = line}

Least(S) == CHOOSE x \in S : \A y \in S : x <= y

\* The offset of the first entry of "line" in the line table of "code".
FirstOffsetOfLine(code, line) ==
    SumOffsetDeltas(PyString_AsVector(code.co_lnotab), Least(RowsOfLine(code, line)))

\* C29: the offset SetBreakpoint records for a new breakpoint is the offset
\* of the first entry of the line in the line table of the code object as
\* written, whatever breakpoints the code object is patched with.
C29_OffsetFromOriginalLineTable ==
    [][\A code_object \in DOMAIN co, line \in 0..MaxLine :
          (/\ last'.op = "SetBreakpoint"
           /\ last'.code_object = code_object
           /\ last'.cookie # -1
           /\ SetBreakpoint(code_object, line)) =>
             /\ RowsOfLine(Original(code_object), line) # {}
             /\ cookie_map_'[last'.cookie].offset
                   = FirstOffsetOfLine(Original(code_object), line)]_vars

\* A breakpoint was created on line 2 of f while f was patched with a
\* breakpoint on line 1.
C29_Witness ==
    /\ last.op = "SetBreakpoint"
    /\ last.cookie = kFirstCookie + 1
    /\ DOMAIN cookie_map_ = {kFirstCookie, kFirstCookie + 1}
    /\ cookie_map_[kFirstCookie] = [code_object |-> "f", offset |-> 0, cookie |-> kFirstCookie]
    /\ cookie_map_[kFirstCookie + 1].code_object = "f"
    /\ cookie_map_[kFirstCookie + 1].offset = 6

\* The sentinels of a constants tuple: what follows the constants of the
\* code object as written.
SentinelsOf(id) ==
    SubSeq(co[id].co_consts.items,
           PyTuple_GET_SIZE(patches_[id].original_consts) + 1,
           PyTuple_GET_SIZE(co[id].co_consts))

\* The entries of the multimap of "id" whose breakpoint is not in error.
NotInError(id) ==
    SelectSeq(patches_[id].breakpoints, LAMBDA entry : status[entry.cookie] # kError)

\* C24: the constants of a patched code object are the constants as written
\* followed by exactly one sentinel for each breakpoint of the code object
\* that is not in error, in the descending-offset order of the multimap, and
\* none for a breakpoint in error.
C24_SentinelPerActiveBreakpoint ==
    \A id \in DOMAIN patches_ :
        patches_[id].breakpoints # << >> =>
            /\ SubSeq(co[id].co_consts.items, 1,
                      PyTuple_GET_SIZE(patches_[id].original_consts))
                 = patches_[id].original_consts.items
            /\ SentinelsOf(id) = CookiesOf(NotInError(id))


----------------------------------------------------------------------------
(* BytecodeManipulator (bytecode_manipulator.cc), the wordcode build: every *)
(* instruction is two bytes, opcode and argument byte, and an argument     *)
(* larger than a byte is carried by EXTENDED_ARG instructions put before   *)
(* it. Bytecode and line table are plain sequences of bytes; an offset is  *)
(* zero based, as in the source.                                           *)

YIELD_FROM == 72
YIELD_VALUE == 86

\* EXTENDED_ARG of the wordcode interpreter.
EXTENDED_ARG3 == 144

\* enum PythonOpcodeType
GetOpcodeType(opcode) ==
    IF opcode \in {YIELD_VALUE, YIELD_FROM} THEN "YIELD_OPCODE"
    ELSE IF opcode \in DeltaBranchOpcodes THEN "BRANCH_DELTA_OPCODE"
    ELSE IF opcode \in AbsoluteBranchOpcodes THEN "BRANCH_ABSOLUTE_OPCODE"
    ELSE "SEQUENTIAL_OPCODE"

\* kInvalidInstruction { 0xFF, 0xFFFFFFFF, 0 }
BM_kInvalidInstruction == [opcode |-> 255, argument |-> ToUInt32(-1), size |-> 0]

PythonInstructionNoArg(opcode) == [opcode |-> opcode, argument |-> 0, size |-> 2]

PythonInstructionArg(opcode, argument) ==
    [opcode |-> opcode,
     argument |-> argument,
     size |-> IF argument < 0 THEN 8    \* a uint32 above 0x7FFFFFFF
              ELSE IF argument <= 255 THEN 2
              ELSE IF argument <= 65535 THEN 4
              ELSE IF argument <= 16777215 THEN 6
              ELSE 8]

RECURSIVE GetInstructionsSize(_)
GetInstructionsSize(instructions) ==
    IF instructions = << >> THEN 0
    ELSE Head(instructions).size + GetInstructionsSize(Tail(instructions))

GetBranchTarget(offset, instruction) ==
    IF GetOpcodeType(instruction.opcode) = "BRANCH_DELTA_OPCODE"
      THEN offset + instruction.size + instruction.argument
    ELSE IF GetOpcodeType(instruction.opcode) = "BRANCH_ABSOLUTE_OPCODE"
      THEN instruction.argument
    ELSE -1

\* it[0] of an iterator at offset it: a byte of the vector, or, before the
\* start of the vector, whatever the memory in front of it holds.
BM_ByteAt(bytecode, it, garbage) ==
    IF it < 0 THEN garbage ELSE bytecode[it + 1]

\* The loop of ReadInstruction over the EXTENDED_ARG instructions in front
\* of an instruction, entered with the argument and the size read so far.
RECURSIVE BM_ReadFrom(_, _, _, _, _)
BM_ReadFrom(bytecode, it, argument, size, garbage) ==
    IF Len(bytecode) - it < 2 THEN BM_kInvalidInstruction
    ELSE IF BM_ByteAt(bytecode, it, garbage) = EXTENDED_ARG3
      THEN BM_ReadFrom(bytecode, it + 2,
                       ToUInt32(argument * 256 + BM_ByteAt(bytecode, it + 1, garbage)),
                       size + 2, garbage)
    ELSE [opcode |-> BM_ByteAt(bytecode, it, garbage),
          argument |-> ToUInt32(argument * 256 + BM_ByteAt(bytecode, it + 1, garbage)),
          size |-> size + 2]

BM_ReadInstruction(bytecode, it, garbage) == BM_ReadFrom(bytecode, it, 0, 0, garbage)

\* arg >> (8 * n)
RECURSIVE ShiftRight8(_, _)
ShiftRight8(arg, n) == IF n = 0 THEN arg ELSE ShiftRight8(arg \div 256, n - 1)

\* A WriteInstruction that stores the bytes of the argument lowest first.
InstructionBytes_LowFirst(instruction) ==
    [k \in 1..instruction.size |->
        IF k % 2 = 1
          THEN (IF k = instruction.size - 1 THEN instruction.opcode ELSE EXTENDED_ARG3)
          ELSE ShiftRight8(instruction.argument, (k \div 2) - 1) % 256]

\* The bytes WriteInstruction writes: the instruction in the last two bytes,
\* EXTENDED_ARG instructions with the higher bytes of the argument before it.
InstructionBytes(instruction) ==
    [k \in 1..instruction.size |->
        IF k % 2 = 1
          THEN (IF k = instruction.size - 1 THEN instruction.opcode ELSE EXTENDED_ARG3)
          ELSE ShiftRight8(instruction.argument, (instruction.size - k) \div 2) % 256]

\* Overwrites the bytes from offset it on; a byte in front of the vector is
\* not a byte of the vector.
BM_WriteBytes(bytecode, it, bytes) ==
    [i \in 1..Len(bytecode) |->
        IF i - 1 >= it /\ i - 1 < it + Len(bytes) THEN bytes[i - it] ELSE bytecode[i]]

BM_WriteInstruction(bytecode, it, instruction) ==
    BM_WriteBytes(bytecode, it, InstructionBytes(instruction))

RECURSIVE WriteInstructions(_, _, _)
WriteInstructions(bytecode, it, instructions) ==
    IF instructions = << >> THEN bytecode
    ELSE WriteInstructions(BM_WriteInstruction(bytecode, it, Head(instructions)),
                           it + Head(instructions).size, Tail(instructions))

BuildMethodCall(const_index) ==
    << PythonInstructionArg(LOAD_CONST, const_index),
       PythonInstructionArg(CALL_FUNCTION, 0),
       PythonInstructionNoArg(POP_TOP) >>

\* vector::insert(begin() + offset, size, value)
BM_InsertFill(v, offset, size, value) ==
    SubSeq(v, 1, offset) \o [i \in 1..size |-> value] \o SubSeq(v, offset + 1, Len(v))


\* A constructor that stays with its default strategy.
BM_Strategy_Default(bytecode, it) == "STRATEGY_INSERT"

\* The constructor's choice of strategy_: the loop from offset it on.
RECURSIVE BM_Strategy(_, _)
BM_Strategy(bytecode, it) ==
    IF it >= Len(bytecode) THEN "STRATEGY_INSERT"
    ELSE IF BM_ReadInstruction(bytecode, it, 0).opcode = BM_kInvalidInstruction.opcode
      THEN "STRATEGY_FAIL"
    ELSE IF GetOpcodeType(BM_ReadInstruction(bytecode, it, 0).opcode) = "YIELD_OPCODE"
      THEN "STRATEGY_APPEND"
    ELSE BM_Strategy(bytecode, it + BM_ReadInstruction(bytecode, it, 0).size)

\* BytecodeManipulator::BytecodeManipulator
BytecodeManipulator(bytecode, has_lnotab, lnotab) ==
    [data_ |-> [bytecode |-> bytecode, lnotab |-> lnotab],
     has_lnotab_ |-> has_lnotab,
     strategy_ |-> BM_Strategy(bytecode, 0)]

kMaxInsertionIterations == 10

\* An entry that is grown and not split.
LnotabEntries_NoSplit(remaining_size, remaining_lines) ==
    <<remaining_size, remaining_lines>>

\* The entries that replace a line table entry grown to remaining_size.
RECURSIVE LnotabEntries(_, _)
LnotabEntries(remaining_size, remaining_lines) ==
    IF remaining_size > 255
      THEN <<255, 0>> \o LnotabEntries(remaining_size - 255, remaining_lines)
      ELSE <<remaining_size, remaining_lines>>

\* The loop of InsertAndUpdateLnotab from the entry at index i on.
RECURSIVE LnotabLoop(_, _, _, _, _)
LnotabLoop(lnotab, i, current_offset, offset, size) ==
    IF i + 1 > Len(lnotab) THEN lnotab
    ELSE IF current_offset + lnotab[i] > offset
      THEN SubSeq(lnotab, 1, i - 1)
             \o LnotabEntries(lnotab[i] + size, lnotab[i + 1])
             \o SubSeq(lnotab, i + 2, Len(lnotab))
    ELSE LnotabLoop(lnotab, i + 2, current_offset + lnotab[i], offset, size)

InsertAndUpdateLnotab(offset, size, lnotab) == LnotabLoop(lnotab, 1, 0, offset, size)

\* "Update the offsets of all insertions after."
ShiftInsertions(insertions, insertion) ==
    [k \in 1..Len(insertions) |->
        IF insertions[k].current_offset >= insertion.current_offset
          THEN [insertions[k] EXCEPT !.current_offset = @ + insertion.size]
          ELSE insertions[k]]

BM_Max(a, b) == IF a >= b THEN a ELSE b

\* A need_to_update that also moves the branches to the insertion itself.
NeedToUpdate_TargetIncluded(u, insertion) ==
    IF GetOpcodeType(u.instruction.opcode) = "BRANCH_DELTA_OPCODE"
      THEN /\ u.current_offset < insertion.current_offset
           /\ insertion.current_offset <=
                u.current_offset + BM_Max(u.instruction.size, u.original_size)
                  + ToInt32(u.instruction.argument)
    ELSE IF GetOpcodeType(u.instruction.opcode) = "BRANCH_ABSOLUTE_OPCODE"
      THEN insertion.current_offset <= ToInt32(u.instruction.argument)
    ELSE FALSE

\* need_to_update of an UpdatedInstruction u for an insertion.
NeedToUpdate(u, insertion) ==
    IF GetOpcodeType(u.instruction.opcode) = "BRANCH_DELTA_OPCODE"
      THEN /\ u.current_offset < insertion.current_offset
           /\ insertion.current_offset <
                u.current_offset + BM_Max(u.instruction.size, u.original_size)
                  + ToInt32(u.instruction.argument)
    ELSE IF GetOpcodeType(u.instruction.opcode) = "BRANCH_ABSOLUTE_OPCODE"
      THEN insertion.current_offset < ToInt32(u.instruction.argument)
    ELSE FALSE

\* current_offset of u after the insertion has been accounted for.
MovedOffset(u, insertion, iterations) ==
    IF \/ iterations = 0 /\ u.current_offset - insertion.current_offset >= 0
       \/ u.current_offset - insertion.current_offset > 0
      THEN u.current_offset + insertion.size
      ELSE u.current_offset

\* The end of the body of the loop over the branch instructions, for the
\* i-th of them, its moved offset and its instruction with the new argument.
UpdateBranch(st, i, moved, need_to_update, new_instruction) ==
    IF need_to_update
      THEN [insertions |->
                IF new_instruction.size - st.instructions[i].instruction.size > 0
                  THEN Append(st.insertions,
                              [size |-> new_instruction.size
                                          - st.instructions[i].instruction.size,
                               current_offset |-> moved])
                  ELSE st.insertions,
            instructions |->
                [st.instructions EXCEPT ![i] = [instruction |-> new_instruction,
                                                original_size |-> @.original_size,
                                                current_offset |-> moved]]]
      ELSE [st EXCEPT !.instructions[i].current_offset = moved]

\* "Update the offsets and arguments of the branches", from the i-th on.
RECURSIVE UpdateBranches(_, _, _, _)
UpdateBranches(st, i, insertion, iterations) ==
    IF i > Len(st.instructions) THEN st
    ELSE UpdateBranches(
             UpdateBranch(st, i,
                          MovedOffset(st.instructions[i], insertion, iterations),
                          NeedToUpdate(st.instructions[i], insertion),
                          PythonInstructionArg(
                              st.instructions[i].instruction.opcode,
                              ToInt32(st.instructions[i].instruction.argument)
                                + insertion.size)),
             i + 1, insertion, iterations)

\* A loop that goes on until no insertion is left.
RECURSIVE InsertionLoop_Unbounded(_, _)
InsertionLoop_Unbounded(st, iterations) ==
    IF st.insertions = << >>
      THEN [ok |-> TRUE, instructions |-> st.instructions]
      ELSE InsertionLoop_Unbounded(
               UpdateBranches(
                   [insertions |-> ShiftInsertions(
                                       SubSeq(st.insertions, 1, Len(st.insertions) - 1),
                                       st.insertions[Len(st.insertions)]),
                    instructions |-> st.instructions],
                   1, st.insertions[Len(st.insertions)], iterations),
               iterations + 1)

\* The while loop of InsertAndUpdateBranchInstructions.
RECURSIVE InsertionLoop(_, _)
InsertionLoop(st, iterations) ==
    IF st.insertions = << >> \/ iterations >= kMaxInsertionIterations
      THEN [ok |-> st.insertions = << >>, instructions |-> st.instructions]
      ELSE InsertionLoop(
               UpdateBranches(
                   [insertions |-> ShiftInsertions(
                                       SubSeq(st.insertions, 1, Len(st.insertions) - 1),
                                       st.insertions[Len(st.insertions)]),
                    instructions |-> st.instructions],
                   1, st.insertions[Len(st.insertions)], iterations),
               iterations + 1)

InsertAndUpdateBranchInstructions(insertion, instructions) ==
    InsertionLoop([insertions |-> <<insertion>>, instructions |-> instructions], 0)


\* What an insertion that gave up returns: false, and the working copy as it
\* is at that point of the code.
BM_Failed(data) == [ok |-> FALSE, data |-> data, relocated_size |-> 0]

\* "Gather all branch instructions": the loop from offset it on.
RECURSIVE Gather(_, _, _, _)
GatherInstruction(bytecode, it, offset, acc, instruction) ==
    IF instruction.opcode = BM_kInvalidInstruction.opcode
      THEN [acc EXCEPT !.ok = FALSE]
      ELSE Gather(bytecode, it + instruction.size, offset,
                  [acc EXCEPT
                     !.offset_valid = @ \/ it = offset,
                     !.updated =
                        IF GetOpcodeType(instruction.opcode)
                             \in {"BRANCH_DELTA_OPCODE", "BRANCH_ABSOLUTE_OPCODE"}
                          THEN Append(@, [instruction |-> instruction,
                                          original_size |-> instruction.size,
                                          current_offset |-> it])
                          ELSE @])

Gather(bytecode, it, offset, acc) ==
    IF it >= Len(bytecode) THEN acc
    ELSE GatherInstruction(bytecode, it, offset, acc, BM_ReadInstruction(bytecode, it, 0))

\* The body of "Write new branch instructions" for one instruction.
WriteBranch(data, has_lnotab, u) ==
    IF u.instruction.size - u.original_size > 0
      THEN [bytecode |->
                BM_WriteInstruction(
                    BM_InsertFill(data.bytecode, u.current_offset,
                                  u.instruction.size - u.original_size, NOP),
                    u.current_offset, u.instruction),
            lnotab |->
                IF has_lnotab
                  THEN InsertAndUpdateLnotab(u.current_offset,
                                             u.instruction.size - u.original_size,
                                             data.lnotab)
                  ELSE data.lnotab]
      ELSE [bytecode |->
                BM_WriteInstruction(
                    data.bytecode,
                    u.current_offset + (u.original_size - u.instruction.size),
                    u.instruction),
            lnotab |-> data.lnotab]

RECURSIVE WriteBranches(_, _, _)
WriteBranches(data, has_lnotab, instructions) ==
    IF instructions = << >> THEN data
    ELSE WriteBranches(WriteBranch(data, has_lnotab, Head(instructions)),
                       has_lnotab, Tail(instructions))

\* InsertMethodCall once the new branch instructions have been calculated.
InsertCalculated(data, has_lnotab, offset, method_call_instructions, calculated) ==
    IF ~calculated.ok THEN BM_Failed(data)
    ELSE [ok |-> TRUE,
          data |->
              WriteBranches(
                  [bytecode |->
                       WriteInstructions(
                           BM_InsertFill(data.bytecode, offset,
                                         GetInstructionsSize(method_call_instructions),
                                         NOP),
                           offset, method_call_instructions),
                   lnotab |->
                       IF has_lnotab
                         THEN InsertAndUpdateLnotab(
                                  offset,
                                  GetInstructionsSize(method_call_instructions),
                                  data.lnotab)
                         ELSE data.lnotab],
                  has_lnotab, calculated.instructions),
          relocated_size |-> 0]

\* InsertMethodCall once the branch instructions have been gathered.
InsertGathered(data, has_lnotab, offset, const_index, gathered) ==
    IF ~gathered.ok \/ ~gathered.offset_valid THEN BM_Failed(data)
    ELSE InsertCalculated(
             data, has_lnotab, offset, BuildMethodCall(const_index),
             InsertAndUpdateBranchInstructions(
                 [size |-> GetInstructionsSize(BuildMethodCall(const_index)),
                  current_offset |-> offset],
                 gathered.updated))

\* BytecodeManipulator::InsertMethodCall of the wordcode build
BM_InsertMethodCall(data, has_lnotab, offset, const_index) ==
    InsertGathered(data, has_lnotab, offset, const_index,
                   Gather(data.bytecode, 0, offset,
                          [ok |-> TRUE, offset_valid |-> FALSE, updated |-> << >>]))

\* The first loop of AppendMethodCall: the instructions from offset it on
\* that the trampoline overwrites.
RECURSIVE Relocate(_, _, _, _, _)
\* A first loop that relocates whatever instruction it reads.
RelocateInstruction_Any(bytecode, it, trampoline_size, relocated, garbage, instruction) ==
    IF instruction.opcode = BM_kInvalidInstruction.opcode
      THEN [ok |-> FALSE, instructions |-> relocated]
    ELSE Relocate(bytecode, it + instruction.size, trampoline_size,
                  Append(relocated, instruction), garbage)

RelocateInstruction(bytecode, it, trampoline_size, relocated, garbage, instruction) ==
    IF instruction.opcode = BM_kInvalidInstruction.opcode
      THEN [ok |-> FALSE, instructions |-> relocated]
    ELSE IF GetOpcodeType(instruction.opcode) \in {"BRANCH_DELTA_OPCODE", "YIELD_OPCODE"}
      THEN [ok |-> FALSE, instructions |-> relocated]
    ELSE Relocate(bytecode, it + instruction.size, trampoline_size,
                  Append(relocated, instruction), garbage)

Relocate(bytecode, it, trampoline_size, relocated, garbage) ==
    IF GetInstructionsSize(relocated) >= trampoline_size
      THEN [ok |-> TRUE, instructions |-> relocated]
    ELSE IF it >= Len(bytecode)
      THEN [ok |-> FALSE, instructions |-> relocated]
    ELSE RelocateInstruction(bytecode, it, trampoline_size, relocated, garbage,
                             BM_ReadInstruction(bytecode, it, garbage))

\* The second loop of AppendMethodCall, from offset it on: every instruction
\* decodes and no branch goes into the relocated instructions.
RECURSIVE NoJumpInto(_, _, _, _)
\* A second loop that refuses the branches to the ends of the relocated
\* instructions too.
NoJumpIntoInstruction_Ends(bytecode, it, offset, relocated_size, instruction) ==
    IF instruction.opcode = BM_kInvalidInstruction.opcode THEN FALSE
    ELSE IF /\ GetOpcodeType(instruction.opcode)
                 \in {"BRANCH_DELTA_OPCODE", "BRANCH_ABSOLUTE_OPCODE"}
            /\ GetBranchTarget(it, instruction) >= offset
            /\ GetBranchTarget(it, instruction) <= offset + relocated_size
      THEN FALSE
    ELSE NoJumpInto(bytecode, it + instruction.size, offset, relocated_size)

NoJumpIntoInstruction(bytecode, it, offset, relocated_size, instruction) ==
    IF instruction.opcode = BM_kInvalidInstruction.opcode THEN FALSE
    ELSE IF /\ GetOpcodeType(instruction.opcode)
                 \in {"BRANCH_DELTA_OPCODE", "BRANCH_ABSOLUTE_OPCODE"}
            /\ GetBranchTarget(it, instruction) > offset
            /\ GetBranchTarget(it, instruction) < offset + relocated_size
      THEN FALSE
    ELSE NoJumpInto(bytecode, it + instruction.size, offset, relocated_size)

NoJumpInto(bytecode, it, offset, relocated_size) ==
    IF it >= Len(bytecode) THEN TRUE
    ELSE NoJumpIntoInstruction(bytecode, it, offset, relocated_size,
                               BM_ReadInstruction(bytecode, it, 0))

\* The end of AppendMethodCall: appendix, trampoline and padding are written.
AppendWrite(data, offset, trampoline, relocated_size, appendix) ==
    [ok |-> TRUE,
     data |->
        [bytecode |->
             BM_WriteBytes(
                 BM_WriteInstruction(
                     WriteInstructions(
                         data.bytecode
                           \o [i \in 1..GetInstructionsSize(appendix) |-> 0],
                         Len(data.bytecode), appendix),
                     offset, trampoline),
                 offset + trampoline.size,
                 [i \in 1..(relocated_size - trampoline.size) |-> NOP]),
         lnotab |-> data.lnotab],
     relocated_size |-> relocated_size]

\* AppendMethodCall once the instructions to relocate have been read.
AppendRelocated(data, offset, const_index, trampoline, relocated) ==
    IF ~relocated.ok THEN BM_Failed(data)
    ELSE IF ~NoJumpInto(data.bytecode, 0, offset,
                        GetInstructionsSize(relocated.instructions))
      THEN BM_Failed(data)
    ELSE AppendWrite(data, offset, trampoline,
                     GetInstructionsSize(relocated.instructions),
                     BuildMethodCall(const_index)
                       \o relocated.instructions
                       \o << PythonInstructionArg(
                                 JUMP_ABSOLUTE,
                                 offset + GetInstructionsSize(relocated.instructions)) >>)

\* AppendMethodCall for a trampoline. An offset in front of the bytecode
\* makes the first loop read memory that is not the vector's.
AppendTrampoline(data, offset, const_index, trampoline, garbage) ==
    AppendRelocated(data, offset, const_index, trampoline,
                    Relocate(data.bytecode, offset, trampoline.size, << >>, garbage))

\* BytecodeManipulator::AppendMethodCall
AppendMethodCall(data, offset, const_index, garbage) ==
    AppendTrampoline(data, offset, const_index,
                     PythonInstructionArg(JUMP_ABSOLUTE, Len(data.bytecode)), garbage)

\* The switch of InjectMethodCall over strategy_, on the copy new_data.
InjectInto(m, new_data, offset, callable_const_index, garbage) ==
    IF m.strategy_ = "STRATEGY_INSERT"
      THEN BM_InsertMethodCall(new_data, m.has_lnotab_, offset, callable_const_index)
    ELSE IF m.strategy_ = "STRATEGY_APPEND"
      THEN AppendMethodCall(new_data, offset, callable_const_index, garbage)
    ELSE BM_Failed(new_data)

\* A manipulator that loses its bytecode when an injection fails.
CommitInjected_Always(m, injected) ==
    [ok |-> injected.ok,
     m |-> [m EXCEPT !.data_ = IF injected.ok THEN injected.data
                               ELSE [bytecode |-> << >>, lnotab |-> << >>]],
     relocated_size |-> injected.relocated_size]

\* The end of InjectMethodCall: new_data is moved into data_ on success only.
CommitInjected(m, injected) ==
    [ok |-> injected.ok,
     m |-> IF injected.ok THEN [m EXCEPT !.data_ = injected.data] ELSE m,
     relocated_size |-> injected.relocated_size]

\* BytecodeManipulator::InjectMethodCall
InjectMethodCall(m, offset, callable_const_index, garbage) ==
    CommitInjected(m, InjectInto(m, m.data_, offset, callable_const_index, garbage))


----------------------------------------------------------------------------
(* A BytecodeManipulator built over one of a few code objects and asked to *)
(* inject method calls.                                                    *)

\* Number of InjectMethodCall calls on one manipulator.
MaxInjections == 2

\* Number of offsets in front of the bytecode that a caller passes.
OffsetsBelow == 2

\* Bytes that the memory in front of the bytecode may hold.
Garbage == {NOP, YIELD_VALUE}

\* Indexes of the callable in the constants tuple: one that fits an argument
\* byte and one that needs EXTENDED_ARG.
ConstIndexes == {2, 300}

RECURSIVE Repeat(_, _)
Repeat(s, n) == IF n = 0 THEN << >> ELSE s \o Repeat(s, n - 1)

\* The code objects: bytecode and line table.
ManipulatorPrograms ==
    { \* straight code
      [bytecode |-> <<NOP, 0, LOAD_CONST, 0, NOP, 0>>, lnotab |-> <<2, 1, 2, 1>>],
      \* branches
      [bytecode |-> <<JUMP_FORWARD, 0, NOP, 0, JUMP_ABSOLUTE, 2>>, lnotab |-> <<2, 1, 2, 1>>],
      \* an instruction with an EXTENDED_ARG in front of it
      [bytecode |-> <<NOP, 0, EXTENDED_ARG3, 1, LOAD_CONST, 2, RETURN_VALUE, 0>>,
       lnotab |-> <<2, 1, 4, 1>>],
      \* a branch whose argument outgrows its byte
      [bytecode |-> <<JUMP_ABSOLUTE, 250, NOP, 0>>, lnotab |-> <<2, 1>>],
      \* a branch in front of two lines, whose argument outgrows its byte
      [bytecode |-> <<JUMP_ABSOLUTE, 250, LOAD_CONST, 0, POP_TOP, 0, NOP, 0>>,
       lnotab |-> <<2, 1, 4, 1>>],
      \* a branch that outgrows its argument in front of branches into the
      \* bytecode
      [bytecode |-> <<JUMP_ABSOLUTE, 250, JUMP_FORWARD, 4, JUMP_ABSOLUTE, 8, NOP, 0,
                      NOP, 0, JUMP_ABSOLUTE, 6>>,
       lnotab |-> <<6, 1, 2, 1>>],
      \* branches with an EXTENDED_ARG of 0 that they do not need
      [bytecode |-> <<EXTENDED_ARG3, 0, JUMP_FORWARD, 2, EXTENDED_ARG3, 0, JUMP_ABSOLUTE, 10,
                      NOP, 0, NOP, 0>>,
       lnotab |-> <<8, 1>>],
      \* a forward jump that outgrows its argument
      [bytecode |-> <<JUMP_ABSOLUTE, 4, JUMP_FORWARD, 252, NOP, 0, NOP, 0>>,
       lnotab |-> <<4, 1>>],
      \* two branches that outgrow their arguments in one injection
      [bytecode |-> <<JUMP_ABSOLUTE, 248, JUMP_ABSOLUTE, 250, NOP, 0>>, lnotab |-> <<4, 1>>],
      \* line table entries that outgrow their byte
      [bytecode |-> <<NOP, 0, NOP, 0, NOP, 0, RETURN_VALUE, 0>>, lnotab |-> <<2, 1, 254, 3>>],
      \* nine branches that outgrow their arguments
      [bytecode |-> Repeat(<<JUMP_ABSOLUTE, 250>>, 9) \o <<NOP, 0>>, lnotab |-> <<18, 1>>],
      \* branches that keep outgrowing their arguments
      [bytecode |-> Repeat(<<JUMP_ABSOLUTE, 250>>, 10) \o <<NOP, 0>>, lnotab |-> <<20, 1>>],
      \* bytecode that ends in the middle of an instruction
      [bytecode |-> <<NOP, 0, LOAD_CONST>>, lnotab |-> <<2, 1>>],
      \* bytecode that ends after an EXTENDED_ARG
      [bytecode |-> <<NOP, 0, EXTENDED_ARG3, 0>>, lnotab |-> <<2, 1>>],
      \* a generator
      [bytecode |-> <<LOAD_CONST, 1, YIELD_VALUE, 0, POP_TOP, 0, LOAD_CONST, 0,
                      RETURN_VALUE, 0>>,
       lnotab |-> <<2, 1, 4, 1>>],
      \* a generator that ends in the middle of an instruction
      [bytecode |-> <<YIELD_VALUE, 0, NOP, 0, LOAD_CONST>>, lnotab |-> <<2, 1>>],
      \* a generator with a branch and an EXTENDED_ARG
      [bytecode |-> <<YIELD_VALUE, 0, EXTENDED_ARG3, 0, LOAD_CONST, 1, POP_TOP, 0,
                      JUMP_FORWARD, 2, NOP, 0, JUMP_ABSOLUTE, 4>>,
       lnotab |-> <<2, 1, 6, 1>>],
      \* a generator of 258 bytes, whose trampoline needs an EXTENDED_ARG
      [bytecode |-> <<YIELD_VALUE, 0, NOP, 0, LOAD_CONST, 0, NOP, 0, YIELD_VALUE, 0,
                      JUMP_FORWARD, 0, JUMP_ABSOLUTE, 4, JUMP_ABSOLUTE, 8>>
                    \o Repeat(<<EXTENDED_ARG3, 0, EXTENDED_ARG3, 0, EXTENDED_ARG3, 0,
                                NOP, 0>>, 30)
                    \o <<NOP, 0>>,
       lnotab |-> <<8, 1, 8, 1>>],
      \* a generator that yields from another one
      [bytecode |-> <<NOP, 0, NOP, 0, YIELD_FROM, 0, RETURN_VALUE, 0>>,
       lnotab |-> <<4, 1>>] }

ManipulatorInit ==
    /\ InitWorld("small")
    /\ bucket = Idle
    /\ tracer = Idle
    /\ thread = Idle
    /\ conditional = Idle
    /\ codec = Idle
    /\ thread_breakpoints = Idle
    /\ \E program \in ManipulatorPrograms, has_lnotab \in BOOLEAN :
          manipulator =
              [object |-> BytecodeManipulator(
                              program.bytecode, has_lnotab,
                              IF has_lnotab THEN program.lnotab ELSE << >>),
               original |-> program.bytecode,
               calls |-> 0,
               call |-> [op |-> "BytecodeManipulator"]]

\* A call of InjectMethodCall and what its caller gets to see.
Inject(offset, callable_const_index, garbage) ==
    /\ manipulator.calls < MaxInjections
    /\ offset <= Len(manipulator.object.data_.bytecode) + 1
    /\ \E injected \in {InjectMethodCall(manipulator.object, offset,
                                         callable_const_index, garbage)} :
          manipulator' =
              [object |-> injected.m,
               original |-> manipulator.original,
               calls |-> manipulator.calls + 1,
               call |-> [op |-> "InjectMethodCall",
                         offset |-> offset,
                         callable_const_index |-> callable_const_index,
                         ok |-> injected.ok,
                         before |-> manipulator.object,
                         relocated_size |-> injected.relocated_size]]

\* Largest offset a caller passes (the guard of Inject cuts it to the size
\* of the bytecode).
MaxOffset == 24

\* The offset of the last two bytes of the bytecode.
LastInstruction == {Len(manipulator.object.data_.bytecode) - 2}

ManipulatorNext ==
    /\ \E offset \in (0 - OffsetsBelow)..MaxOffset \cup LastInstruction,
          callable_const_index \in ConstIndexes, garbage \in Garbage :
          Inject(offset, callable_const_index, garbage)
    /\ UNCHANGED <<registry, bucket, tracer, thread, conditional, codec, thread_breakpoints>>

ManipulatorSpec == ManipulatorInit /\ [][ManipulatorNext]_vars


----------------------------------------------------------------------------
(* Properties of the BytecodeManipulator.                                  *)

\* The last operation was a call of InjectMethodCall.
Injecting == manipulator.call.op = "InjectMethodCall"

\* C12: when InjectMethodCall returns false, whatever the strategy and the
\* cause of the failure, the bytecode and the line table of the manipulator
\* are the byte sequences they were before the call.
C12_FailedInjectKeepsData ==
    (Injecting /\ ~manipulator.call.ok)
        => /\ manipulator.object.data_.bytecode = manipulator.call.before.data_.bytecode
           /\ manipulator.object.data_.lnotab = manipulator.call.before.data_.lnotab

\* An injection fails on a manipulator that an earlier injection has changed.
C12_Witness ==
    /\ Injecting
    /\ ~manipulator.call.ok
    /\ manipulator.calls = 2
    /\ manipulator.object.data_.bytecode # manipulator.original
    /\ manipulator.object.strategy_ = "STRATEGY_INSERT"
    /\ manipulator.call.offset \in 0..(Len(manipulator.object.data_.bytecode) - 1)


\* offset is the first byte of an instruction of the bytecode, of its first
\* EXTENDED_ARG when it has any: the instructions are walked from offset it.
RECURSIVE IsInstructionStart(_, _, _)
IsInstructionStart(bytecode, it, offset) ==
    IF it >= Len(bytecode) THEN FALSE
    ELSE IF it = offset THEN TRUE
    ELSE IF BM_ReadInstruction(bytecode, it, 0).opcode = BM_kInvalidInstruction.opcode
      THEN FALSE
    ELSE IsInstructionStart(bytecode, it + BM_ReadInstruction(bytecode, it, 0).size, offset)

\* C13: InjectMethodCall returns false when the offset is negative, at or
\* past the end of the bytecode, or not the first byte of an instruction,
\* whichever strategy the manipulator has chosen.
C13_BadOffsetFails ==
    (/\ Injecting
     /\ \/ manipulator.call.offset < 0
        \/ manipulator.call.offset >= Len(manipulator.call.before.data_.bytecode)
        \/ ~IsInstructionStart(manipulator.call.before.data_.bytecode, 0,
                               manipulator.call.offset))
        => ~manipulator.call.ok

\* The same for the offsets inside the bytecode only, where no memory in
\* front of the vector is read.
C13_MidInstructionFails ==
    (/\ Injecting
     /\ manipulator.call.offset \in
            0..(Len(manipulator.call.before.data_.bytecode) - 1)
     /\ ~IsInstructionStart(manipulator.call.before.data_.bytecode, 0,
                            manipulator.call.offset))
        => ~manipulator.call.ok

\* The same under the insertion strategy only.
C13_BadOffsetFailsInsert ==
    (/\ Injecting
     /\ manipulator.object.strategy_ = "STRATEGY_INSERT"
     /\ \/ manipulator.call.offset < 0
        \/ manipulator.call.offset >= Len(manipulator.call.before.data_.bytecode)
        \/ ~IsInstructionStart(manipulator.call.before.data_.bytecode, 0,
                               manipulator.call.offset))
        => ~manipulator.call.ok


\* The offsets of the instructions of the bytecode that can be decoded one
\* after the other from offset it on.
RECURSIVE Decoded(_, _)
Decoded(bytecode, it) ==
    IF it >= Len(bytecode) THEN {}
    ELSE IF BM_ReadInstruction(bytecode, it, 0) = BM_kInvalidInstruction THEN {}
    ELSE {it} \cup Decoded(bytecode, it + BM_ReadInstruction(bytecode, it, 0).size)

\* The bytecode ends in the middle of an instruction.
Undecodable(bytecode) ==
    \/ Len(bytecode) % 2 = 1
    \/ Len(bytecode) > 0 /\ bytecode[Len(bytecode) - 1] = EXTENDED_ARG3

\* The bytecode has a Yield instruction in front of anything undecodable.
ContainsYield(bytecode) ==
    \E it \in Decoded(bytecode, 0) :
        BM_ReadInstruction(bytecode, it, 0).opcode \in {YIELD_VALUE, YIELD_FROM}

SameInstructionAt(before, after, offset) ==
    /\ IsInstructionStart(after, 0, offset)
    /\ BM_ReadInstruction(after, offset, 0).opcode
          = BM_ReadInstruction(before, offset, 0).opcode

MethodCallInstructions == 3

\* The offset of instruction number k (from 0) among the instructions that
\* start at "starts".
OffsetOfIndex(starts, k) ==
    CHOOSE x \in starts : Cardinality({y \in starts : y < x}) = k

\* Number of the instruction at x (from 0) among the instructions that
\* start at "starts".
IndexOfOffset(starts, x) == Cardinality({y \in starts : y < x})

\* Where the injection at "offset" that made "after" of "before" has put
\* the instruction at x of "before": an instruction keeps its place in the
\* order of the instructions, the instructions of the method call standing
\* in front of the instruction at "offset".
InstructionPosition(before, after, offset, x) ==
    OffsetOfIndex(Decoded(after, 0),
                  IndexOfOffset(Decoded(before, 0), x)
                    + (IF x >= offset THEN MethodCallInstructions ELSE 0))

\* Where a branch to t of "before" is to go in "after": to the instruction
\* that was at t, to the first byte of the method call if t is "offset", and
\* as far behind the bytecode as before if t is behind the bytecode.
TargetPosition(before, after, offset, t) ==
    IF t >= Len(before) THEN t + Len(after) - Len(before)
    ELSE IF t = offset
      THEN OffsetOfIndex(Decoded(after, 0), IndexOfOffset(Decoded(before, 0), t))
    ELSE InstructionPosition(before, after, offset, t)

\* The branch instructions of the bytecode whose target is the start of an
\* instruction or behind the bytecode.
Branches(bytecode) ==
    {x \in Decoded(bytecode, 0) :
        /\ GetOpcodeType(BM_ReadInstruction(bytecode, x, 0).opcode)
              \in {"BRANCH_DELTA_OPCODE", "BRANCH_ABSOLUTE_OPCODE"}
        /\ \/ GetBranchTarget(x, BM_ReadInstruction(bytecode, x, 0)) >= Len(bytecode)
           \/ GetBranchTarget(x, BM_ReadInstruction(bytecode, x, 0))
                 \in Decoded(bytecode, 0)}

\* The branch at x of "before" is the same branch in "after", and its
\* target is where a branch to the target it had is to go.
BranchFollowsTarget(before, after, offset, x) ==
    \E moved \in {InstructionPosition(before, after, offset, x)} :
        /\ BM_ReadInstruction(after, moved, 0).opcode
              = BM_ReadInstruction(before, x, 0).opcode
        /\ GetBranchTarget(moved, BM_ReadInstruction(after, moved, 0))
              = TargetPosition(before, after, offset,
                               GetBranchTarget(x, BM_ReadInstruction(before, x, 0)))

\* C30: after an InjectMethodCall at an offset that succeeded by the
\* insertion strategy, every branch has the new position of its target as
\* its target, and a branch whose target was the offset has the first byte
\* of the injected method call; this also when branches got an EXTENDED_ARG
\* for a larger argument.
C30_BranchesFollowTargets ==
    (/\ Injecting
     /\ manipulator.call.ok
     /\ manipulator.object.strategy_ = "STRATEGY_INSERT") =>
        \A x \in Branches(manipulator.call.before.data_.bytecode) :
            BranchFollowsTarget(manipulator.call.before.data_.bytecode,
                                manipulator.object.data_.bytecode,
                                manipulator.call.offset, x)

\* A method call was inserted at offset 6, the target of the last branch:
\* the first branch has got an EXTENDED_ARG, and the last one has the method
\* call, now at offset 8, as its target.
C30_Witness ==
    /\ Injecting
    /\ manipulator.call.ok
    /\ manipulator.call.offset = 6
    /\ manipulator.call.before.data_.bytecode =
          <<JUMP_ABSOLUTE, 250, JUMP_FORWARD, 4, JUMP_ABSOLUTE, 8, NOP, 0,
            NOP, 0, JUMP_ABSOLUTE, 6>>
    /\ SubSeq(manipulator.object.data_.bytecode, 1, 4)
          = <<EXTENDED_ARG3, 1, JUMP_ABSOLUTE, 2>>
    /\ SubSeq(manipulator.object.data_.bytecode, 9, 10)
          = <<LOAD_CONST, manipulator.call.callable_const_index>>
    /\ SubSeq(manipulator.object.data_.bytecode, 19, 20) = <<JUMP_ABSOLUTE, 8>>

\* The insertion records of the call that made "after" of "before": the
\* method call and one for every two bytes the bytecode has grown by
\* besides.
InsertionRecords(before, after, const_index) ==
    1 + (Len(after) - Len(before) - GetInstructionsSize(BuildMethodCall(const_index)))
          \div 2

\* The branches of the bytecode that an insertion of "size" bytes at
\* "offset" leaves with an argument that needs one byte more.
OutgrowingBranches(bytecode, offset, size) ==
    {x \in Decoded(bytecode, 0) :
        /\ GetOpcodeType(BM_ReadInstruction(bytecode, x, 0).opcode)
              = "BRANCH_ABSOLUTE_OPCODE"
        /\ BM_ReadInstruction(bytecode, x, 0).argument > offset
        /\ BM_ReadInstruction(bytecode, x, 0).argument <= 255
        /\ BM_ReadInstruction(bytecode, x, 0).argument + size > 255}

\* C31: an InjectMethodCall by the insertion strategy that succeeds has
\* processed at most kMaxInsertionIterations insertion records, the method
\* call and the EXTENDED_ARG insertions it led to, and one that makes as
\* many branches as that outgrow their arguments fails.
C31_CascadeBounded ==
    (Injecting /\ manipulator.object.strategy_ = "STRATEGY_INSERT") =>
        /\ manipulator.call.ok =>
              InsertionRecords(manipulator.call.before.data_.bytecode,
                               manipulator.object.data_.bytecode,
                               manipulator.call.callable_const_index)
                <= kMaxInsertionIterations
        /\ Cardinality(OutgrowingBranches(
                           manipulator.call.before.data_.bytecode,
                           manipulator.call.offset,
                           GetInstructionsSize(BuildMethodCall(
                               manipulator.call.callable_const_index))))
              >= kMaxInsertionIterations => ~manipulator.call.ok

\* The method call in front of the NOP behind ten branches that all outgrow
\* their arguments was refused and the bytecode is as it was.
C31_Witness ==
    /\ Injecting
    /\ manipulator.object.strategy_ = "STRATEGY_INSERT"
    /\ manipulator.call.offset = 20
    /\ manipulator.call.before.data_.bytecode
          = Repeat(<<JUMP_ABSOLUTE, 250>>, 10) \o <<NOP, 0>>
    /\ ~manipulator.call.ok
    /\ manipulator.object.data_.bytecode = manipulator.call.before.data_.bytecode

\* Nine branches got an EXTENDED_ARG in one call: ten insertion records.
C31_WitnessNine ==
    /\ Injecting
    /\ manipulator.call.ok
    /\ InsertionRecords(manipulator.call.before.data_.bytecode,
                        manipulator.object.data_.bytecode,
                        manipulator.call.callable_const_index)
          = kMaxInsertionIterations

\* The (offset, line) pairs a CodeObjectLinesEnumerator goes through from
\* the entry it is at.
RECURSIVE DecodeFrom(_, _)
DecodeFrom(e, lnotab) ==
    <<[offset |-> e.offset_, line |-> e.line_number_]>>
      \o (IF LinesEnumeratorNext(e, lnotab).ok
            THEN DecodeFrom(LinesEnumeratorNext(e, lnotab).e, lnotab)
            ELSE << >>)

\* The pairs of a line table of a code object whose first line is 1.
DecodeLnotab(lnotab) == DecodeFrom(Initialize(1, lnotab), lnotab)

\* The pairs with those at "offset" or behind it moved by "size".
ShiftedPairs(pairs, offset, size) ==
    [i \in 1..Len(pairs) |->
        IF pairs[i].offset >= offset
          THEN [pairs[i] EXCEPT !.offset = @ + size]
          ELSE pairs[i]]

\* The last call inserted a method call and nothing else, into a code
\* object with a line table.
InsertedCallOnly ==
    /\ Injecting
    /\ manipulator.call.ok
    /\ manipulator.object.strategy_ = "STRATEGY_INSERT"
    /\ manipulator.object.has_lnotab_
    /\ InsertionRecords(manipulator.call.before.data_.bytecode,
                        manipulator.object.data_.bytecode,
                        manipulator.call.callable_const_index) = 1

\* C32: the line table that the insertion of a method call of k bytes at
\* offset o leaves decodes to the pairs of the line table before it, with
\* the same lines, the pairs at offsets below o where they were and the
\* pairs at o or behind it moved by k.  The start of the code object, whose
\* pair is at offset 0 by definition, is left out.
C32_LineTableShift ==
    (InsertedCallOnly /\ manipulator.call.offset > 0) =>
        DecodeLnotab(manipulator.object.data_.lnotab)
          = ShiftedPairs(DecodeLnotab(manipulator.call.before.data_.lnotab),
                         manipulator.call.offset,
                         GetInstructionsSize(BuildMethodCall(
                             manipulator.call.callable_const_index)))

\* The row of the line table that an insertion at "offset" extends: the
\* first one that ends behind "offset"; 0 if there is none.
ExtendedRow(lnotab, offset) ==
    IF \A row \in 1..(Len(lnotab) \div 2) : SumOffsetDeltas(lnotab, row) <= offset
      THEN 0
      ELSE Least({row \in 1..(Len(lnotab) \div 2) :
                     SumOffsetDeltas(lnotab, row) > offset})

\* "after" is "before" with the row "row" grown by "size" and split: rows
\* (255, 0) as long as more than 255 is left, then a row with what is left
\* and the line delta of the row.
SplitRow(before, after, row, size) ==
    \E extra \in {(before[2 * row - 1] + size - 1) \div 255} :
        /\ Len(after) = Len(before) + 2 * extra
        /\ SubSeq(after, 1, 2 * row - 2) = SubSeq(before, 1, 2 * row - 2)
        /\ \A i \in 0..(extra - 1) :
              after[2 * (row + i) - 1] = 255 /\ after[2 * (row + i)] = 0
        /\ after[2 * (row + extra) - 1] = before[2 * row - 1] + size - 255 * extra
        /\ after[2 * (row + extra)] = before[2 * row]
        /\ SubSeq(after, 2 * (row + extra) + 1, Len(after))
              = SubSeq(before, 2 * row + 1, Len(before))

\* C33: when the offset delta of the line table row that an insertion
\* extends would pass 255, the row is split into rows (255, 0) and a last
\* row with the rest and the line delta of the row: no byte of the table is
\* above 255, the offset deltas add up to the insertion size more than
\* before and the line deltas to what they did.
C33_LineTableOverflow ==
    InsertedCallOnly =>
    \A row \in {ExtendedRow(manipulator.call.before.data_.lnotab,
                            manipulator.call.offset)} :
        (/\ row > 0
         /\ manipulator.call.before.data_.lnotab[2 * row - 1]
               + GetInstructionsSize(BuildMethodCall(
                     manipulator.call.callable_const_index)) > 255) =>
            /\ SplitRow(manipulator.call.before.data_.lnotab,
                        manipulator.object.data_.lnotab, row,
                        GetInstructionsSize(BuildMethodCall(
                            manipulator.call.callable_const_index)))
            /\ \A i \in 1..Len(manipulator.object.data_.lnotab) :
                  manipulator.object.data_.lnotab[i] \in 0..255
            /\ SumOffsetDeltas(manipulator.object.data_.lnotab,
                               Len(manipulator.object.data_.lnotab) \div 2)
                  = SumOffsetDeltas(manipulator.call.before.data_.lnotab,
                                    Len(manipulator.call.before.data_.lnotab) \div 2)
                    + GetInstructionsSize(BuildMethodCall(
                          manipulator.call.callable_const_index))
            /\ SumLineDeltas(manipulator.object.data_.lnotab,
                             Len(manipulator.object.data_.lnotab) \div 2)
                  = SumLineDeltas(manipulator.call.before.data_.lnotab,
                                  Len(manipulator.call.before.data_.lnotab) \div 2)

\* The row (254, 3) has become (255, 0), (5, 3).
C33_Witness ==
    /\ InsertedCallOnly
    /\ manipulator.call.before.data_.lnotab = <<2, 1, 254, 3>>
    /\ manipulator.call.offset = 4
    /\ manipulator.object.data_.lnotab = <<2, 1, 255, 0, 5, 3>>

\* The offsets of the instructions that a jump of "left" bytes written at
\* offset it goes over, and the length of the bytecode if the bytecode ends
\* before the jump does.
RECURSIVE Overwritten(_, _, _)
Overwritten(bytecode, it, left) ==
    IF left <= 0 THEN {}
    ELSE IF it >= Len(bytecode)
              \/ BM_ReadInstruction(bytecode, it, 0) = BM_kInvalidInstruction
      THEN {Len(bytecode)}
    ELSE {it} \cup Overwritten(bytecode, it + BM_ReadInstruction(bytecode, it, 0).size,
                              left - BM_ReadInstruction(bytecode, it, 0).size)

\* The size of the jump to the end of the bytecode.
TrampolineSize(bytecode) == PythonInstructionArg(JUMP_ABSOLUTE, Len(bytecode)).size

\* The last call was made on a manipulator of the append strategy with an
\* offset that is not in front of the bytecode.
Appending ==
    /\ Injecting
    /\ manipulator.object.strategy_ = "STRATEGY_APPEND"
    /\ manipulator.call.offset >= 0

\* C34: an InjectMethodCall by the append strategy fails if the jump to the
\* appended code would go over a relative branch or a Yield instruction, or
\* if the bytecode ends before the jump does.
C34_NoRoomForTrampoline ==
    Appending =>
        \A x \in Overwritten(manipulator.call.before.data_.bytecode,
                             manipulator.call.offset,
                             TrampolineSize(manipulator.call.before.data_.bytecode)) :
            (\/ x = Len(manipulator.call.before.data_.bytecode)
             \/ GetOpcodeType(BM_ReadInstruction(
                     manipulator.call.before.data_.bytecode, x, 0).opcode)
                   \in {"BRANCH_DELTA_OPCODE", "YIELD_OPCODE"})
                => ~manipulator.call.ok

\* A jump of four bytes at the NOP in front of a YIELD_VALUE was refused.
C34_Witness ==
    /\ Appending
    /\ TrampolineSize(manipulator.call.before.data_.bytecode) = 4
    /\ manipulator.call.offset = 6
    /\ BM_ReadInstruction(manipulator.call.before.data_.bytecode, 6, 0).opcode = NOP
    /\ BM_ReadInstruction(manipulator.call.before.data_.bytecode, 8, 0).opcode
          = YIELD_VALUE
    /\ ~manipulator.call.ok

\* A jump of four bytes at the last two bytes of the bytecode was refused.
C34_WitnessEnd ==
    /\ Appending
    /\ TrampolineSize(manipulator.call.before.data_.bytecode) = 4
    /\ manipulator.call.offset = Len(manipulator.call.before.data_.bytecode) - 2
    /\ ~manipulator.call.ok

\* The bytes of the instructions that a jump of "left" bytes at offset it
\* goes over.
RECURSIVE OverwrittenSize(_, _, _)
OverwrittenSize(bytecode, it, left) ==
    IF left <= 0 \/ it >= Len(bytecode) THEN 0
    ELSE BM_ReadInstruction(bytecode, it, 0).size
           + OverwrittenSize(bytecode, it + BM_ReadInstruction(bytecode, it, 0).size,
                             left - BM_ReadInstruction(bytecode, it, 0).size)

\* The targets of the branches of the bytecode.
TargetsOfBranches(bytecode) ==
    {GetBranchTarget(x, BM_ReadInstruction(bytecode, x, 0)) :
        x \in {y \in Decoded(bytecode, 0) :
                  GetOpcodeType(BM_ReadInstruction(bytecode, y, 0).opcode)
                    \in {"BRANCH_DELTA_OPCODE", "BRANCH_ABSOLUTE_OPCODE"}}}

\* The jump of the last call has room: the bytecode decodes to its end and
\* the jump goes over instructions that can be relocated.
HasRoom ==
    /\ Appending
    /\ ~Undecodable(manipulator.call.before.data_.bytecode)
    /\ \A x \in Overwritten(manipulator.call.before.data_.bytecode,
                             manipulator.call.offset,
                             TrampolineSize(manipulator.call.before.data_.bytecode)) :
          /\ x # Len(manipulator.call.before.data_.bytecode)
          /\ GetOpcodeType(BM_ReadInstruction(
                  manipulator.call.before.data_.bytecode, x, 0).opcode)
                \notin {"BRANCH_DELTA_OPCODE", "YIELD_OPCODE"}

\* The targets of branches inside the instructions the last call relocates:
\* behind the offset and in front of the end of the relocated instructions.
TargetsInside ==
    {t \in TargetsOfBranches(manipulator.call.before.data_.bytecode) :
        /\ manipulator.call.offset < t
        /\ t < manipulator.call.offset
                 + OverwrittenSize(manipulator.call.before.data_.bytecode,
                                   manipulator.call.offset,
                                   TrampolineSize(manipulator.call.before.data_.bytecode))}

\* C35: an InjectMethodCall by the append strategy whose jump has room fails
\* if a branch of the bytecode, relative or absolute, has its target inside
\* the relocated instructions, and succeeds if none has; a branch to the
\* offset itself or to the end of the relocated instructions is no reason
\* to fail.
C35_NoJumpIntoRelocated ==
    HasRoom => (manipulator.call.ok <=> TargetsInside = {})

\* Of the branches to offsets 4 and 8, the first made the call at offset 2,
\* whose jump goes over the instructions at 2 and 4, fail.
C35_Witness ==
    /\ HasRoom
    /\ manipulator.call.offset = 2
    /\ TrampolineSize(manipulator.call.before.data_.bytecode) = 4
    /\ TargetsInside = {4}
    /\ ~manipulator.call.ok

\* The call at offset 4, whose jump goes over the instructions at 4 and 6,
\* succeeded with branches to offsets 4 and 8.
C35_WitnessEnds ==
    /\ HasRoom
    /\ manipulator.call.offset = 4
    /\ TrampolineSize(manipulator.call.before.data_.bytecode) = 4
    /\ {4, 8} \subseteq TargetsOfBranches(manipulator.call.before.data_.bytecode)
    /\ manipulator.call.ok


\* The offsets of the Yield instructions of the bytecode.
YieldOffsets(bytecode) ==
    {it \in Decoded(bytecode, 0) :
        BM_ReadInstruction(bytecode, it, 0).opcode \in {YIELD_VALUE, YIELD_FROM}}

\* What a successful injection by AppendMethodCall leaves of the bytecode
\* and the line table it started from.
AppendKeeps(before, after, offset, relocated_size) ==
    /\ Len(after.bytecode) > Len(before.bytecode)
    /\ \A i \in 1..Len(before.bytecode) :
          after.bytecode[i] # before.bytecode[i]
              => (i - 1 >= offset /\ i - 1 < offset + relocated_size)
    /\ \A it \in YieldOffsets(before.bytecode) :
          /\ after.bytecode[it + 1] = before.bytecode[it + 1]
          /\ it \in Decoded(after.bytecode, 0)
    /\ after.lnotab = before.lnotab

\* C15: after a successful InjectMethodCall under the Append strategy the
\* bytes of the original range differ from what they were only inside
\* [offset, offset + relocated_size), every Yield instruction is where it
\* was, bytes have been added after the old end only, and the line table is
\* what it was.
C15_AppendKeepsOriginal ==
    (/\ Injecting
     /\ manipulator.call.ok
     /\ manipulator.object.strategy_ = "STRATEGY_APPEND")
        => AppendKeeps(manipulator.call.before.data_, manipulator.object.data_,
                       manipulator.call.offset, manipulator.call.relocated_size)

\* The same for the offsets that are the first byte of an instruction.
C15_AppendKeepsOriginalAtBoundary ==
    (/\ Injecting
     /\ manipulator.call.ok
     /\ manipulator.object.strategy_ = "STRATEGY_APPEND"
     /\ IsInstructionStart(manipulator.call.before.data_.bytecode, 0,
                           manipulator.call.offset))
        => AppendKeeps(manipulator.call.before.data_, manipulator.object.data_,
                       manipulator.call.offset, manipulator.call.relocated_size)


----------------------------------------------------------------------------
(* LeakyBucket (leaky_bucket.h, leaky_bucket.cc) called by several threads. *)
(* Time is counted in ticks; the bucket fills FillPerTick parts of a token *)
(* per tick, a token having TokenParts parts, and fractional_tokens_ is    *)
(* kept as a number of parts. A step of a thread is one access to tokens_, *)
(* one read of the clock, or one acquisition of mu_.                       *)

\* capacity of the bucket, in tokens
Capacity == 3

\* parts of a token
TokenParts == 2

\* fill_rate, in parts of a token per tick
FillPerTick == 3

\* The clock stops here.
MaxTime == 3

\* Number of calls of RequestTokens and TakeTokens in a run.
MaxCalls == 3

\* The numbers of tokens a caller asks for: one, all the bucket can hold,
\* and more than it can hold.
TokenAmounts == {1, Capacity, Capacity + 1}

Threads == {1, 2}

\* mu_ when no thread holds it
Unlocked == 0

\* A thread that is in no call of the bucket.
IdleThread(asked, result) ==
    [pc |-> "idle", tokens |-> 0, remaining |-> 0, current_time_ns |-> 0,
     cur_tokens |-> 0, held |-> 0, asked |-> asked, result |-> result]

\* LeakyBucket::LeakyBucket, at time now
LeakyBucket(capacity, fill_rate, now) ==
    [tokens_ |-> capacity,
     capacity_ |-> capacity,
     fractional_tokens_ |-> 0,
     fill_rate_ |-> fill_rate,
     fill_time_ns_ |-> now,
     mu_ |-> Unlocked,
     now |-> now,
     calls |-> 0,
     thread |-> [t \in Threads |-> IdleThread(0, "none")],
     \* bookkeeping of what has been given out, for the properties
     granted |-> 0,
     granted_since |-> [i \in 1..(MaxTime + 1) |-> 0],
     taken |-> 0,
     refilled |-> 0]

BK_Min(a, b) == IF a <= b THEN a ELSE b

\* AtomicIncrementTokens on the bucket b
AtomicIncrementTokens(b, increment) == [b EXCEPT !.tokens_ = @ + increment]

\* AtomicLoadTokens
AtomicLoadTokens(b) == b.tokens_

\* The end of RefillBucket: fractional_tokens_ has grown to fractional.
RefillAdd(b, available_tokens, current_time_ns, fractional) ==
    IF b.capacity_ - available_tokens < fractional \div TokenParts
      THEN [AtomicIncrementTokens(b, b.capacity_ - available_tokens) EXCEPT
               !.fill_time_ns_ = current_time_ns,
               !.fractional_tokens_ = 0,
               !.refilled = @ + (b.capacity_ - available_tokens)]
      ELSE [AtomicIncrementTokens(b, fractional \div TokenParts) EXCEPT
               !.fill_time_ns_ = current_time_ns,
               !.fractional_tokens_ = fractional - (fractional \div TokenParts) * TokenParts,
               !.refilled = @ + (fractional \div TokenParts)]

\* LeakyBucket::RefillBucket: the bucket it leaves; it returns the tokens_
\* of that bucket.
RefillBucket(b, available_tokens, current_time_ns) ==
    IF current_time_ns <= b.fill_time_ns_ THEN b
    ELSE RefillAdd(b, available_tokens, current_time_ns,
                   b.fractional_tokens_
                     + BK_Min((current_time_ns - b.fill_time_ns_) * b.fill_rate_,
                              b.capacity_ * TokenParts))

\* The bookkeeping of n tokens granted at the time of the bucket.
Granted(b, n) ==
    [b EXCEPT !.granted = @ + n,
              !.granted_since = [i \in 1..(MaxTime + 1) |->
                                    IF i - 1 <= b.now THEN @[i] + n ELSE @[i]]]

\* Thread t returns from RequestTokens with result.
ReturnRequest(b, t, result) ==
    IF result
      THEN [Granted(b, b.thread[t].held) EXCEPT
               !.thread[t] = IdleThread(b.thread[t].asked, "true")]
      ELSE [b EXCEPT !.thread[t] = IdleThread(b.thread[t].asked, "false")]


Unlock(b) == [b EXCEPT !.mu_ = Unlocked]

\* RequestTokens once tokens_ has been decremented (b is the bucket after
\* the decrement).
RequestTokensTaken(b, t, requested_tokens) ==
    IF b.tokens_ >= 0
      THEN ReturnRequest([b EXCEPT !.thread[t].held = requested_tokens], t, TRUE)
      ELSE [b EXCEPT !.thread[t] = [@ EXCEPT !.pc = "RequestTokensSlow",
                                             !.tokens = requested_tokens,
                                             !.remaining = b.tokens_,
                                             !.held = requested_tokens,
                                             !.result = "none"]]

\* LeakyBucket::RequestTokens, the inline fast path, called by thread t
RequestTokens(t, requested_tokens) ==
    /\ bucket.thread[t].pc = "idle"
    /\ bucket.calls < MaxCalls
    /\ bucket' =
          IF requested_tokens > bucket.capacity_
            THEN ReturnRequest([bucket EXCEPT !.calls = @ + 1,
                                              !.thread[t].asked = requested_tokens],
                               t, FALSE)
            ELSE RequestTokensTaken(
                     AtomicIncrementTokens([bucket EXCEPT !.calls = @ + 1,
                                                          !.thread[t].asked = requested_tokens],
                                           0 - requested_tokens),
                     t, requested_tokens)

\* RequestTokensSlow: const int64 current_time_ns = NowInNanoseconds()
SlowNow(t) ==
    /\ bucket.thread[t].pc = "RequestTokensSlow"
    /\ bucket' = [bucket EXCEPT !.thread[t].pc = "slow_lock",
                                !.thread[t].current_time_ns = bucket.now]

\* RequestTokensSlow: std::lock_guard<std::mutex> lock(mu_)
SlowLock(t) ==
    /\ bucket.thread[t].pc = "slow_lock"
    /\ bucket.mu_ = Unlocked
    /\ bucket' = [bucket EXCEPT !.mu_ = t, !.thread[t].pc = "slow_load"]

\* RequestTokensSlow: cur_tokens = AtomicLoadTokens(); if (cur_tokens >= 0) return true
SlowLoad(t) ==
    /\ bucket.thread[t].pc = "slow_load"
    /\ bucket' =
          IF AtomicLoadTokens(bucket) >= 0
            THEN ReturnRequest(Unlock(bucket), t, TRUE)
            ELSE [bucket EXCEPT !.thread[t].pc = "slow_refill",
                                !.thread[t].cur_tokens = AtomicLoadTokens(bucket)]

\* RequestTokensSlow after RefillBucket has left the bucket b.
SlowRefilled(b, t) ==
    IF b.tokens_ >= 0
      THEN ReturnRequest(Unlock(b), t, TRUE)
      ELSE [b EXCEPT !.thread[t].pc = "slow_restore"]

\* RequestTokensSlow: available_tokens = RefillBucket(requested_tokens + cur_tokens, ...)
SlowRefill(t) ==
    /\ bucket.thread[t].pc = "slow_refill"
    /\ bucket' =
          SlowRefilled(
              RefillBucket(bucket,
                           bucket.thread[t].tokens + bucket.thread[t].cur_tokens,
                           bucket.thread[t].current_time_ns),
              t)

\* A slow path that does not give the requested tokens back.
RestoreRequested_Nothing(b, t) == b

\* RequestTokensSlow: AtomicIncrementTokens(requested_tokens)
RestoreRequested(b, t) == AtomicIncrementTokens(b, b.thread[t].tokens)

\* RequestTokensSlow: the request could not be satisfied
SlowRestore(t) ==
    /\ bucket.thread[t].pc = "slow_restore"
    /\ bucket' = ReturnRequest(Unlock(RestoreRequested(bucket, t)), t, FALSE)

\* TakeTokens once tokens_ has been decremented (b is the bucket after the
\* decrement).
TakeTokensTaken(b, t, tokens) ==
    IF b.tokens_ < 0
      THEN [b EXCEPT !.thread[t] = [@ EXCEPT !.pc = "TakeTokens",
                                             !.tokens = tokens,
                                             !.remaining = b.tokens_,
                                             !.result = "none"]]
      ELSE [b EXCEPT !.thread[t] = IdleThread(tokens, "void")]

\* LeakyBucket::TakeTokens called by thread t
TakeTokens(t, tokens) ==
    /\ bucket.thread[t].pc = "idle"
    /\ bucket.calls < MaxCalls
    /\ bucket' =
          TakeTokensTaken(
              AtomicIncrementTokens([bucket EXCEPT !.calls = @ + 1, !.taken = @ + tokens],
                                    0 - tokens),
              t, tokens)

\* TakeTokens: const int64 current_time_ns = NowInNanoseconds()
TakeNow(t) ==
    /\ bucket.thread[t].pc = "TakeTokens"
    /\ bucket' = [bucket EXCEPT !.thread[t].pc = "take_lock",
                                !.thread[t].current_time_ns = bucket.now]

\* TakeTokens: std::lock_guard<std::mutex> lock(mu_)
TakeLock(t) ==
    /\ bucket.thread[t].pc = "take_lock"
    /\ bucket.mu_ = Unlocked
    /\ bucket' = [bucket EXCEPT !.mu_ = t, !.thread[t].pc = "take_refill"]

\* TakeTokens: RefillBucket(remaining, current_time_ns)
TakeRefill(t) ==
    /\ bucket.thread[t].pc = "take_refill"
    /\ bucket' =
          [Unlock(RefillBucket(bucket, bucket.thread[t].remaining,
                               bucket.thread[t].current_time_ns))
             EXCEPT !.thread[t] = IdleThread(bucket.thread[t].tokens, "void")]

\* The clock of NowInNanoseconds moves on.
Tick ==
    /\ bucket.now < MaxTime
    /\ bucket' = [bucket EXCEPT !.now = @ + 1]

BucketInit ==
    /\ InitWorld("small")
    /\ manipulator = Idle
    /\ tracer = Idle
    /\ thread = Idle
    /\ conditional = Idle
    /\ codec = Idle
    /\ thread_breakpoints = Idle
    /\ bucket = LeakyBucket(Capacity, FillPerTick, 0)

BucketNext ==
    /\ \/ \E t \in Threads, requested_tokens \in TokenAmounts :
             RequestTokens(t, requested_tokens)
       \/ \E t \in Threads : SlowNow(t)
       \/ \E t \in Threads : SlowLock(t)
       \/ \E t \in Threads : SlowLoad(t)
       \/ \E t \in Threads : SlowRefill(t)
       \/ \E t \in Threads : SlowRestore(t)
       \/ \E t \in Threads, tokens \in TokenAmounts : TakeTokens(t, tokens)
       \/ \E t \in Threads : TakeNow(t)
       \/ \E t \in Threads : TakeLock(t)
       \/ \E t \in Threads : TakeRefill(t)
       \/ Tick
    /\ UNCHANGED <<registry, manipulator, tracer, thread, conditional, codec, thread_breakpoints>>

BucketSpec == BucketInit /\ [][BucketNext]_vars

----------------------------------------------------------------------------
(* Properties of the LeakyBucket.                                          *)

\* C16: whatever the threads calling RequestTokens and TakeTokens do and
\* however their steps interleave, tokens_ is never above capacity_.
C16_TokensAtMostCapacity == bucket.tokens_ <= bucket.capacity_


\* The tokens that the calls of RequestTokens still under way have taken
\* out of tokens_.
HeldTokens == bucket.thread[1].held + bucket.thread[2].held

\* C17: a RequestTokens that returns false has issued no tokens: what it
\* took out of tokens_ it has put back, however the other callers' steps
\* fall, so that tokens_ is the capacity plus the refills minus the tokens
\* granted, taken by TakeTokens and held by the requests under way; and a
\* request for more than capacity_ returns false and leaves tokens_ alone.
C17_FailedRequestIssuesNothing ==
    /\ bucket.tokens_ =
          bucket.capacity_ + bucket.refilled - bucket.granted - bucket.taken - HeldTokens
    /\ \A t \in Threads :
          (bucket.thread[t].pc = "idle" /\ bucket.thread[t].result \in {"true", "false"}
             /\ bucket.thread[t].asked > bucket.capacity_)
              => bucket.thread[t].result = "false"

\* A request that the bucket could hold has failed on the slow path, after a
\* refill, while the other thread is inside a call.
C17_Witness ==
    /\ bucket.thread[1].pc = "idle"
    /\ bucket.thread[1].result = "false"
    /\ bucket.thread[1].asked <= bucket.capacity_
    /\ bucket.thread[2].pc \notin {"idle"}
    /\ bucket.refilled > 0

\* C18: in any interval of time, RequestTokens grants at most capacity_
\* tokens plus what the fill rate gives in the length of the interval:
\* for every time t0 up to now, the tokens granted from t0 on are at most
\* capacity_ + fill_rate_ * (now - t0).
C18_GrantsAtMostBurstPlusRate ==
    \A i \in 1..(bucket.now + 1) :
        TokenParts * bucket.granted_since[i]
            <= TokenParts * bucket.capacity_ + bucket.fill_rate_ * (bucket.now - (i - 1))

----------------------------------------------------------------------------
(* ImmutabilityTracer (immutability_tracer.cc), the build for Python 3     *)
(* before 3.8: two-byte instructions.                                      *)

UNARY_NOT == 12
BINARY_ADD == 23
STORE_GLOBAL == 97
LOAD_GLOBAL == 116
LOAD_FAST == 124
STORE_FAST == 125

OPCODE_MUTABLE == "OPCODE_MUTABLE"
OPCODE_NOT_MUTABLE == "OPCODE_NOT_MUTABLE"
OPCODE_MAYBE_MUTABLE == "OPCODE_MAYBE_MUTABLE"

\* The "return OPCODE_NOT_MUTABLE" cases of IsOpcodeMutable that this build
\* compiles, restricted to the opcodes the code objects of the model hold.
\* UNARY_NOT and JUMP_ABSOLUTE are cases of the Python 2 branch only.
NotMutableOpcodes ==
    {POP_TOP, NOP, BINARY_ADD, RETURN_VALUE, YIELD_VALUE, FOR_ITER,
     LOAD_CONST, JUMP_FORWARD, JUMP_IF_FALSE_OR_POP, JUMP_IF_TRUE_OR_POP,
     POP_JUMP_IF_TRUE, POP_JUMP_IF_FALSE, LOAD_GLOBAL, LOAD_FAST, STORE_FAST,
     CALL_FUNCTION, EXTENDED_ARG3, CONTINUE_LOOP, SETUP_LOOP, YIELD_FROM}

\* The "return OPCODE_MUTABLE" cases, restricted the same way.
MutableOpcodes == {STORE_GLOBAL, SETUP_FINALLY, SETUP_WITH, SETUP_EXCEPT}

IsOpcodeMutable(opcode) ==
    IF opcode \in NotMutableOpcodes THEN OPCODE_NOT_MUTABLE
    ELSE IF opcode \in MutableOpcodes THEN OPCODE_MUTABLE
    ELSE OPCODE_MAYBE_MUTABLE

\* A range walk that accepts every opcode.
ProcessCodeRange_Accept(detected, co_code, opcodes, end) == detected

\* ProcessCodeRange: "opcodes" and "end" are offsets from code_start; the
\* result is mutable_code_detected_ after the walk.
RECURSIVE ProcessCodeRange(_, _, _, _)
ProcessCodeRange(detected, co_code, opcodes, end) ==
    IF opcodes >= end THEN detected
    ELSE LET opcode == co_code[opcodes + 1]
             mutable == IsOpcodeMutable(opcode)
         IN IF mutable = OPCODE_NOT_MUTABLE
              THEN ProcessCodeRange(detected, co_code, opcodes + 2, end)
            ELSE IF /\ mutable = OPCODE_MAYBE_MUTABLE
                    /\ opcode = JUMP_ABSOLUTE
                    /\ opcodes # co_code[opcodes + 2]
              THEN ProcessCodeRange(detected, co_code, opcodes + 2, end)
            ELSE TRUE

\* One pass of the do-while loop of ProcessCodeLine and what follows it.
RECURSIVE ProcessCodeLineLoop(_, _, _, _, _)
ProcessCodeLineLoop(detected, code_object, line_number, e, start_offset) ==
    LET ranged == IF start_offset # -1
                    THEN ProcessCodeRange(detected, code_object.co_code,
                                          start_offset, e.offset_)
                    ELSE detected
        start == IF line_number = e.line_number_ THEN e.offset_ ELSE -1
        n == LinesEnumeratorNext(e, code_object.co_lnotab)
    IN IF n.ok
         THEN ProcessCodeLineLoop(ranged, code_object, line_number, n.e, start)
       ELSE IF start # -1
         THEN ProcessCodeRange(ranged, code_object.co_code, start,
                               Len(code_object.co_code))
       ELSE ranged

ProcessCodeLine(detected, code_object, line_number) ==
    ProcessCodeLineLoop(detected, code_object, line_number,
                        Initialize(code_object.co_firstlineno,
                                   code_object.co_lnotab), -1)

kWhitelistedCFunctions ==
    {"abs", "divmod", "all", "enumerate", "int", "ord", "str", "any",
     "isinstance", "pow", "sum", "issubclass", "super", "bin", "iter",
     "tuple", "bool", "filter", "len", "range", "type", "bytearray", "float",
     "list", "unichr", "format", "locals", "reduce", "unicode", "chr",
     "frozenset", "long", "vars", "getattr", "map", "repr", "xrange", "cmp",
     "globals", "max", "reversed", "zip", "hasattr", "round", "complex",
     "hash", "min", "set", "apply", "next", "dict", "hex", "object", "slice",
     "coerce", "dir", "id", "oct", "sorted"}

kBlacklistedCodeObjectNames ==
    {"__setattr__", "__delattr__", "__del__", "__new__", "__set__",
     "__delete__", "__call__", "__setitem__", "__delitem__", "__setslice__",
     "__delslice__"}

\* A C call check that lets every callee through.
ProcessCCall_Allow(detected, function) == detected

\* ProcessCCall: "function" is [cfunction |-> PyCFunction_Check(function),
\* ml_name |-> its m_ml->ml_name].
ProcessCCall(detected, function) ==
    IF function.cfunction
      THEN IF function.ml_name \in kWhitelistedCFunctions THEN detected
           ELSE TRUE
    ELSE TRUE

\* co_names of a code object whose names are not a tuple of strings.
CorruptedNames == "corrupted"

\* A VerifyCodeObject that remembers the code object before it looks at
\* the names.
VerifyCodeObject_InsertFirst(t, code_object) ==
    IF code_object.name \in t.verified_code_objects_ THEN t
    ELSE IF code_object.co_names = CorruptedNames
      THEN [t EXCEPT !.mutable_code_detected_ = TRUE]
    ELSE [t EXCEPT !.verified_code_objects_ = @ \cup {code_object.name},
                   !.mutable_code_detected_ =
                       @ \/ \E i \in 1..Len(code_object.co_names) :
                                code_object.co_names[i] \in kBlacklistedCodeObjectNames]

\* VerifyCodeObject: the tracer with the code object verified or the flag set.
VerifyCodeObject(t, code_object) ==
    IF code_object.name \in t.verified_code_objects_ THEN t
    ELSE IF code_object.co_names = CorruptedNames
      THEN [t EXCEPT !.mutable_code_detected_ = TRUE]
    ELSE IF \E i \in 1..Len(code_object.co_names) :
                code_object.co_names[i] \in kBlacklistedCodeObjectNames
      THEN [t EXCEPT !.mutable_code_detected_ = TRUE]
    ELSE [t EXCEPT !.verified_code_objects_ = @ \cup {code_object.name}]

PyTrace_CALL == "PyTrace_CALL"
PyTrace_EXCEPTION == "PyTrace_EXCEPTION"
PyTrace_LINE == "PyTrace_LINE"
PyTrace_RETURN == "PyTrace_RETURN"
PyTrace_C_CALL == "PyTrace_C_CALL"
PyTrace_C_EXCEPTION == "PyTrace_C_EXCEPTION"
PyTrace_C_RETURN == "PyTrace_C_RETURN"

\* FLAGS_max_expression_lines, scaled down.
MaxExpressionLines == 3

\* The switch of OnTraceCallbackInternal.
TraceSwitch(t, what, code_object, f_lineno, arg) ==
    IF what = PyTrace_CALL THEN VerifyCodeObject(t, code_object)
    ELSE IF what = PyTrace_LINE
      THEN [t EXCEPT !.line_count_ = @ + 1,
                     !.mutable_code_detected_ =
                         ProcessCodeLine(@, code_object, f_lineno)]
    ELSE IF what = PyTrace_C_CALL
      THEN [t EXCEPT !.line_count_ = @ + 1,
                     !.mutable_code_detected_ = ProcessCCall(@, arg)]
    ELSE t

\* A return that checks no quota.
TraceReturn_NoQuota(t) ==
    [t EXCEPT !.exception = @ \/ t.mutable_code_detected_,
              !.result = IF t.mutable_code_detected_ THEN -1 ELSE 0]

\* The quota check, SetMutableCodeException and the return code.
TraceReturn(t) ==
    LET detected == t.mutable_code_detected_
                        \/ t.line_count_ > MaxExpressionLines
    IN [t EXCEPT !.mutable_code_detected_ = detected,
                 !.exception = @ \/ detected,
                 !.result = IF detected THEN -1 ELSE 0]

\* ImmutabilityTracer() followed by Start: no event seen yet. "allowed" is
\* not a member: it counts the LINE and C_CALL callbacks that returned 0.
ImmutabilityTracer ==
    [line_count_ |-> 0,
     allowed |-> 0,
     mutable_code_detected_ |-> FALSE,
     verified_code_objects_ |-> {},
     exception |-> FALSE,
     result |-> 0,
     event |-> [what |-> "none"]]

\* OnTraceCallbackInternal. "event" records the call and the tracer's
\* counter and flag before it.
OnTraceCallbackInternal(t, what, code_object, f_lineno, arg) ==
    [TraceReturn(TraceSwitch(t, what, code_object, f_lineno, arg))
        EXCEPT !.event = [what |-> what,
                          code |-> code_object.name,
                          f_lineno |-> f_lineno,
                          arg |-> arg,
                          line_count_ |-> t.line_count_,
                          mutable_code_detected_ |-> t.mutable_code_detected_]]

----------------------------------------------------------------------------
(* The evaluations the tracer watches.                                     *)

CodeObject(name, firstlineno, lnotab, names, code) ==
    [name |-> name, co_firstlineno |-> firstlineno, co_lnotab |-> lnotab,
     co_names |-> names, co_code |-> code]

\* Code objects of traced frames; the lines of each start at 11.
TracerCodeObjects ==
    { \* return a + 1
      CodeObject("add", 10, <<0, 1>>, << >>,
                 <<LOAD_FAST, 0, LOAD_CONST, 1, BINARY_ADD, 0,
                   RETURN_VALUE, 0>>),
      \* x = 1; global g; g = x; return None
      CodeObject("change_global", 10, <<0, 1, 4, 1, 4, 1>>, <<"g">>,
                 <<LOAD_CONST, 1, STORE_FAST, 0,
                   LOAD_FAST, 0, STORE_GLOBAL, 0,
                   LOAD_CONST, 0, RETURN_VALUE, 0>>),
      \* while a: pass, a jump back to the start of the loop
      CodeObject("loop", 10, <<0, 1, 6, 1, 2, 1>>, << >>,
                 <<SETUP_LOOP, 8, LOAD_FAST, 0, POP_JUMP_IF_FALSE, 8,
                   JUMP_ABSOLUTE, 2,
                   LOAD_CONST, 0, RETURN_VALUE, 0>>),
      \* while True: pass, a jump to itself
      CodeObject("spin", 10, <<0, 1, 2, 1, 2, 1>>, << >>,
                 <<SETUP_LOOP, 4, JUMP_ABSOLUTE, 2,
                   LOAD_CONST, 0, RETURN_VALUE, 0>>),
      \* a far jump whose low argument byte is its own offset
      CodeObject("far", 10, <<0, 1, 6, 1>>, << >>,
                 <<LOAD_FAST, 0, EXTENDED_ARG3, 1, JUMP_ABSOLUTE, 4,
                   LOAD_CONST, 0, RETURN_VALUE, 0>>),
      \* return not a
      CodeObject("negate", 10, <<0, 1>>, << >>,
                 <<LOAD_FAST, 0, UNARY_NOT, 0, RETURN_VALUE, 0>>),
      \* one line in two ranges of the line table
      CodeObject("two_ranges", 10, <<0, 1, 4, 0, 4, 1>>, <<"g">>,
                 <<LOAD_CONST, 1, STORE_FAST, 0,
                   LOAD_FAST, 0, STORE_GLOBAL, 0,
                   LOAD_CONST, 0, RETURN_VALUE, 0>>),
      \* a table whose first entry does not start at offset 0
      CodeObject("late", 10, <<2, 1>>, <<"g">>,
                 <<LOAD_CONST, 1, STORE_GLOBAL, 0,
                   LOAD_CONST, 0, RETURN_VALUE, 0>>),
      \* x.__setattr__('a', 1)
      CodeObject("setattr", 10, <<0, 1>>, <<"__setattr__">>,
                 <<LOAD_FAST, 0, LOAD_CONST, 1, RETURN_VALUE, 0>>),
      \* del x.a[0] written as x.a.__delitem__(0)
      CodeObject("delitem", 10, <<0, 1>>, <<"a", "__delitem__">>,
                 <<LOAD_FAST, 0, LOAD_CONST, 1, RETURN_VALUE, 0>>),
      CodeObject("corrupted", 10, <<0, 1>>, CorruptedNames,
                 <<LOAD_CONST, 0, RETURN_VALUE, 0>>) }

FirstLine == 10
LastLine == 14

\* Arguments of C_CALL events: native functions by name, and an object that
\* is not a native function.
CFunction(name) == [cfunction |-> TRUE, ml_name |-> name]
NotCFunction == [cfunction |-> FALSE, ml_name |-> ""]
TracerCallees ==
    {CFunction("len"), CFunction("repr"), CFunction("setattr"),
     CFunction("open"), NotCFunction}

NoCode == CodeObject("", 0, << >>, << >>, << >>)

TracerInit ==
    /\ InitWorld("small")
    /\ manipulator = Idle
    /\ bucket = Idle
    /\ tracer = ImmutabilityTracer
    /\ thread = Idle
    /\ conditional = Idle
    /\ codec = Idle
    /\ thread_breakpoints = Idle

\* Counted events delivered past the quota.
MaxSwallowed == 2

\* A negative code raises the exception in the traced frame. A native
\* callee that swallows exceptions (hasattr of Python 2) lets the evaluation
\* go on after it, so events keep coming; the model follows the evaluation up
\* to MaxSwallowed counted events past the quota.
Evaluating == tracer.line_count_ < MaxExpressionLines + MaxSwallowed

\* One trace callback, and whether the interpreter went on to execute the
\* line or the native call it announced.
Deliver(what, code_object, f_lineno, arg) ==
    \E after \in {OnTraceCallbackInternal(tracer, what, code_object,
                                          f_lineno, arg)} :
        tracer' = [after EXCEPT !.allowed =
                       IF what \in {PyTrace_LINE, PyTrace_C_CALL}
                              /\ after.result = 0
                         THEN @ + 1 ELSE @]

\* Code objects the evaluation enters.
MaxVerified == 2

TraceCall(code_object) ==
    /\ Evaluating
    /\ \/ code_object.name \in tracer.verified_code_objects_
       \/ Cardinality(tracer.verified_code_objects_) < MaxVerified
    /\ Deliver(PyTrace_CALL, code_object, code_object.co_firstlineno,
               NotCFunction)

TraceLine(code_object, f_lineno) ==
    /\ Evaluating
    /\ Deliver(PyTrace_LINE, code_object, f_lineno, NotCFunction)

TraceCCall(arg) ==
    /\ Evaluating
    /\ Deliver(PyTrace_C_CALL, NoCode, 0, arg)

TraceOther(what) == Deliver(what, NoCode, 0, NotCFunction)

TracerNext ==
    /\ \/ \E code_object \in TracerCodeObjects : TraceCall(code_object)
       \/ \E code_object \in TracerCodeObjects, f_lineno \in FirstLine..LastLine :
              TraceLine(code_object, f_lineno)
       \/ \E arg \in TracerCallees : TraceCCall(arg)
       \/ \E what \in {PyTrace_EXCEPTION, PyTrace_RETURN, PyTrace_C_EXCEPTION,
                       PyTrace_C_RETURN} : TraceOther(what)
    /\ UNCHANGED <<registry, manipulator, bucket, thread, conditional, codec, thread_breakpoints>>

TracerSpec == TracerInit /\ [][TracerNext]_vars

----------------------------------------------------------------------------
(* Properties of the tracer.                                               *)

\* The code object of the last event.
EventCode == CHOOSE code_object \in TracerCodeObjects \cup {NoCode} :
                 code_object.name = tracer.event.code

\* Every position the lines enumerator takes, from "e" on.
RECURSIVE Positions(_, _)
Positions(e, lnotab) ==
    LET n == LinesEnumeratorNext(e, lnotab)
    IN <<e>> \o (IF n.ok THEN Positions(n.e, lnotab) ELSE << >>)

\* The source line the line table maps the instruction at "offset" to: the
\* line of the last position at or before it.
LineOfOffset(code_object, offset) ==
    LET positions == Positions(Initialize(code_object.co_firstlineno,
                                          code_object.co_lnotab),
                               code_object.co_lnotab)
        at == {i \in 1..Len(positions) : positions[i].offset_ <= offset}
        last_at == CHOOSE i \in at : \A j \in at : j <= i
    IN positions[last_at].line_number_

\* The opcodes of the instructions mapped to "line".
OpcodesOfLine(code_object, line) ==
    {code_object.co_code[offset + 1] :
        offset \in {o \in 0..(Len(code_object.co_code) - 1) :
                        o % 2 = 0 /\ LineOfOffset(code_object, o) = line}}

\* The three classes of opcodes. Absolute jumps are Immutable: under this
\* build IsOpcodeMutable leaves JUMP_ABSOLUTE to its default and
\* ProcessCodeRange steps over it unless it jumps to itself.
OpcodeClass(opcode) ==
    IF IsOpcodeMutable(opcode) = OPCODE_NOT_MUTABLE \/ opcode = JUMP_ABSOLUTE
      THEN "Immutable"
    ELSE IF IsOpcodeMutable(opcode) = OPCODE_MUTABLE THEN "Mutable"
    ELSE "Unknown"

Aborted ==
    /\ tracer.mutable_code_detected_
    /\ tracer.exception
    /\ tracer.result < 0

\* C19: after a LINE event, if an opcode mapped to the current line is
\* Mutable or Unknown then the flag is set, the exception is set and the
\* callback returned a negative code; the callback returned 0 only if every
\* opcode of the line is Immutable.
C19_LineOpcodesImmutable ==
    tracer.event.what = PyTrace_LINE =>
        /\ (\E opcode \in OpcodesOfLine(EventCode, tracer.event.f_lineno) :
                OpcodeClass(opcode) # "Immutable") => Aborted
        /\ tracer.result = 0 =>
               \A opcode \in OpcodesOfLine(EventCode, tracer.event.f_lineno) :
                   OpcodeClass(opcode) = "Immutable"

\* A LINE event within the quota on a line holding a Mutable opcode, and the
\* callback returned the negative code.
C19_Witness ==
    /\ tracer.event.what = PyTrace_LINE
    /\ tracer.line_count_ <= MaxExpressionLines
    /\ STORE_GLOBAL \in OpcodesOfLine(EventCode, tracer.event.f_lineno)
    /\ Aborted

Whitelisted(arg) == arg.cfunction /\ arg.ml_name \in kWhitelistedCFunctions

\* C20: after a C_CALL event, the evaluation is aborted unless the argument
\* is a native function with a whitelisted name; a whitelisted call within
\* the line quota, in an evaluation not aborted before it, returns 0; the
\* call added exactly one to the line counter.
C20_CCallWhitelist ==
    tracer.event.what = PyTrace_C_CALL =>
        /\ ~Whitelisted(tracer.event.arg) => Aborted
        /\ (/\ Whitelisted(tracer.event.arg)
            /\ ~tracer.event.mutable_code_detected_
            /\ tracer.line_count_ <= MaxExpressionLines)
              => tracer.result = 0 /\ ~tracer.mutable_code_detected_
        /\ tracer.line_count_ = tracer.event.line_count_ + 1

\* A whitelisted native call was let through and counted.
C20_Witness ==
    /\ tracer.event.what = PyTrace_C_CALL
    /\ Whitelisted(tracer.event.arg)
    /\ tracer.result = 0
    /\ tracer.line_count_ = tracer.event.line_count_ + 1

\* C21: a callback returns 0 only while the counter of LINE and C_CALL
\* events is at most max_expression_lines, a counter past it means the
\* evaluation is aborted, and the evaluation never executes more than
\* max_expression_lines counted lines and native calls.
C21_LineQuota ==
    /\ tracer.result = 0 => tracer.line_count_ <= MaxExpressionLines
    /\ tracer.line_count_ > MaxExpressionLines => Aborted
    /\ tracer.allowed <= MaxExpressionLines

\* The event that took the counter past the quota was made of Immutable
\* opcodes or a whitelisted call only, in an evaluation not aborted before,
\* and it was aborted.
C21_Witness ==
    /\ tracer.event.what \in {PyTrace_LINE, PyTrace_C_CALL}
    /\ ~tracer.event.mutable_code_detected_
    /\ tracer.event.line_count_ = MaxExpressionLines
    /\ tracer.allowed = MaxExpressionLines
    /\ tracer.event.what = PyTrace_C_CALL => Whitelisted(tracer.event.arg)
    /\ tracer.event.what = PyTrace_LINE =>
           \A opcode \in OpcodesOfLine(EventCode, tracer.event.f_lineno) :
               IsOpcodeMutable(opcode) = OPCODE_NOT_MUTABLE
    /\ Aborted

----------------------------------------------------------------------------
(* Tracer scopes: ScopedImmutabilityTracer, Start and Stop on one thread.  *)
(* "tracer" is the stack of the scopes alive on the thread, the innermost  *)
(* last; "thread" is its PyThreadState and the last event raised on it.    *)

\* nullptr as the trace object of a thread.
NoTracer == 0

\* Scopes alive at once.
MaxDepth == 2

PyThreadState(tracing) ==
    [tracing |-> tracing,
     c_traceobj |-> NoTracer,
     c_profileobj |-> NoTracer,
     raised |-> [what |-> "none"]]

\* NewNativePythonObject<ImmutabilityTracer>() and Start(self): the scope
\* and the thread state after them.
Start(th, self) ==
    [scope |-> [object |-> ImmutabilityTracer,
                self_ |-> self,
                thread_state_ |-> TRUE,
                original_thread_state_tracing_ |-> th.tracing],
     th |-> [th EXCEPT !.tracing = 0,
                       !.c_traceobj = self,
                       !.c_profileobj = self]]

\* Stop: the thread state after it.
Stop(th, scope) ==
    IF scope.thread_state_
      THEN [th EXCEPT !.c_traceobj = NoTracer,
                      !.c_profileobj = NoTracer,
                      !.tracing = scope.original_thread_state_tracing_]
    ELSE th

\* The events an evaluation raises.
TraceEvent(what, code_object, f_lineno, arg) ==
    [what |-> what, code_object |-> code_object, f_lineno |-> f_lineno,
     arg |-> arg]

CodeNamed(name) == CHOOSE code_object \in TracerCodeObjects :
                       code_object.name = name

ScopeEvents ==
    {TraceEvent(PyTrace_CALL, CodeNamed("add"), 10, NotCFunction),
     TraceEvent(PyTrace_LINE, CodeNamed("add"), 11, NotCFunction),
     TraceEvent(PyTrace_LINE, CodeNamed("change_global"), 12, NotCFunction),
     TraceEvent(PyTrace_C_CALL, NoCode, 0, CFunction("len")),
     TraceEvent(PyTrace_C_CALL, NoCode, 0, CFunction("apply")),
     TraceEvent(PyTrace_C_CALL, NoCode, 0, CFunction("open"))}

\* Whitelisted native functions that call their argument themselves: the
\* interpreter raises no C_CALL event for the callee.
CallingBuiltins == {"apply", "map"}

ScopeInit ==
    /\ InitWorld("small")
    /\ manipulator = Idle
    /\ bucket = Idle
    /\ tracer = << >>
    /\ conditional = Idle
    /\ codec = Idle
    /\ thread_breakpoints = Idle
    /\ \E tracing \in {0, 1} : thread = PyThreadState(tracing)

\* The debugger evaluates an expression: CallImmutable or EvaluateCondition
\* constructs its ScopedImmutabilityTracer.
EnterScope ==
    /\ tracer = << >>
    /\ \E started \in {Start(thread, 1)} :
           /\ tracer' = <<started.scope>>
           /\ thread' = started.th

\* The expression under evaluation reaches CallImmutable through a native
\* function the tracer let through: a second scope on the same thread.
EnterNestedScope ==
    /\ Len(tracer) \in 1..(MaxDepth - 1)
    /\ LET object == tracer[Len(tracer)].object
       IN /\ object.event.what = PyTrace_C_CALL
          /\ object.result = 0
          /\ object.event.arg.ml_name \in CallingBuiltins
    /\ \E started \in {Start(thread, Len(tracer) + 1)} :
           /\ tracer' = Append(tracer, started.scope)
           /\ thread' = started.th

\* The evaluation of the innermost scope returns: ~ScopedImmutabilityTracer.
ExitScope ==
    /\ tracer # << >>
    /\ thread' = Stop(thread, tracer[Len(tracer)])
    /\ tracer' = SubSeq(tracer, 1, Len(tracer) - 1)

\* The interpreter raises an event of the running evaluation: line events
\* go to the trace function, native calls to the profile function, neither
\* while the thread's tracing counter is set.
Raise(ev) ==
    /\ tracer # << >>
    /\ LET receiver == IF ev.what = PyTrace_C_CALL THEN thread.c_profileobj
                       ELSE thread.c_traceobj
           delivered == receiver # NoTracer /\ thread.tracing = 0
       IN /\ thread' = [thread EXCEPT !.raised =
                            [what |-> ev.what,
                             scope |-> Len(tracer),
                             delivered_to |-> IF delivered THEN receiver
                                              ELSE NoTracer]]
          /\ IF delivered
               THEN /\ tracer[receiver].object.line_count_
                           < MaxExpressionLines + MaxSwallowed
                    /\ tracer' = [tracer EXCEPT ![receiver].object =
                                      OnTraceCallbackInternal(@, ev.what,
                                          ev.code_object, ev.f_lineno, ev.arg)]
             ELSE UNCHANGED tracer

ScopeNext ==
    /\ \/ EnterScope
       \/ EnterNestedScope
       \/ ExitScope
       \/ \E ev \in ScopeEvents : Raise(ev)
    /\ UNCHANGED <<registry, manipulator, bucket, conditional, codec, thread_breakpoints>>

ScopeSpec == ScopeInit /\ [][ScopeNext]_vars

\* C22: every event raised while a tracer scope is open is delivered to the
\* tracer of the innermost open scope, also after a nested scope has started
\* and ended.
C22_EventsDelivered ==
    thread.raised.what # "none" =>
        thread.raised.delivered_to = thread.raised.scope

----------------------------------------------------------------------------
(* ConditionalBreakpoint (conditional_breakpoint.cc) and the condition     *)
(* quotas of rate_limit.cc, called under the interpreter lock.             *)

\* LeakyBucket::RequestTokens with no other thread in the bucket, at time
\* "now": the result and the bucket it leaves. "granted" counts the tokens
\* the call took from the bucket.
RequestTokensAlone(b, requested_tokens, now) ==
    IF requested_tokens > b.capacity_ THEN [ok |-> FALSE, b |-> b]
    ELSE IF AtomicIncrementTokens(b, 0 - requested_tokens).tokens_ >= 0
      THEN [ok |-> TRUE,
            b |-> [AtomicIncrementTokens(b, 0 - requested_tokens)
                      EXCEPT !.granted = @ + requested_tokens]]
    ELSE LET taken == AtomicIncrementTokens(b, 0 - requested_tokens)
             refilled == RefillBucket(taken,
                                      requested_tokens + AtomicLoadTokens(taken),
                                      now)
         IN IF refilled.tokens_ >= 0
              THEN [ok |-> TRUE,
                    b |-> [refilled EXCEPT !.granted = @ + requested_tokens]]
            ELSE [ok |-> FALSE,
                  b |-> AtomicIncrementTokens(refilled, requested_tokens)]

\* LazyInitializeRateLimit: g_global_condition_quota.
GlobalConditionQuota == LeakyBucket(Capacity, FillPerTick, 0)

CreatePerBreakpointConditionQuota ==
    LeakyBucket(Capacity \div 2, FillPerTick \div 2, 0)

\* ConditionalBreakpoint(condition, callback); "events" are the calls of
\* python_callback_ made by the last OnBreakpointHit.
ConditionalBreakpoint(condition) ==
    [condition_ |-> condition,
     per_breakpoint_condition_quota_ |-> CreatePerBreakpointConditionQuota,
     g_global_condition_quota |-> GlobalConditionQuota,
     now |-> 0,
     hits |-> 0,
     events |-> << >>,
     evaluation |-> [result |-> "none", line_count |-> 0],
     charged |-> [global |-> 0, breakpoint |-> 0]]

\* NotifyBreakpointEvent(event, frame): python_callback_ is called with the
\* event and the frame, Py_None for a null frame.
NotifyBreakpointEvent(c, event, obj_frame) ==
    [c EXCEPT !.events = Append(@, [event |-> event, frame |-> obj_frame])]

\* An ApplyConditionQuota that goes on to the quota of the breakpoint when
\* the global quota is exceeded.
ApplyConditionQuota_NoReturn(c, time_ns) ==
    LET global == RequestTokensAlone(c.g_global_condition_quota, time_ns, c.now)
        applied == [c EXCEPT !.g_global_condition_quota = global.b]
        breakpoint == RequestTokensAlone(c.per_breakpoint_condition_quota_,
                                         time_ns, c.now)
        first == IF ~global.ok
                   THEN NotifyBreakpointEvent(applied, "GlobalConditionQuotaExceeded",
                                              "Py_None")
                 ELSE applied
    IN IF ~breakpoint.ok
         THEN NotifyBreakpointEvent(
                  [first EXCEPT !.per_breakpoint_condition_quota_ = breakpoint.b],
                  "BreakpointConditionQuotaExceeded", "Py_None")
       ELSE [first EXCEPT !.per_breakpoint_condition_quota_ = breakpoint.b]

\* ApplyConditionQuota(line_count).
ApplyConditionQuota(c, time_ns) ==
    LET global == RequestTokensAlone(c.g_global_condition_quota, time_ns, c.now)
        applied == [c EXCEPT !.g_global_condition_quota = global.b]
        breakpoint == RequestTokensAlone(c.per_breakpoint_condition_quota_,
                                         time_ns, c.now)
    IN IF ~global.ok
         THEN NotifyBreakpointEvent(applied, "GlobalConditionQuotaExceeded",
                                    "Py_None")
       ELSE IF ~breakpoint.ok
         THEN NotifyBreakpointEvent(
                  [applied EXCEPT !.per_breakpoint_condition_quota_ = breakpoint.b],
                  "BreakpointConditionQuotaExceeded", "Py_None")
       ELSE [applied EXCEPT !.per_breakpoint_condition_quota_ = breakpoint.b]

\* The outcomes of PyEval_EvalCode under the tracer: the value is truthy or
\* not, the evaluation raised, or the tracer aborted it.
ConditionResults == {"true", "false", "exception", "mutable"}

\* EvaluateCondition: the breakpoint it leaves and its return value.
EvaluateCondition(c, result, line_count) ==
    IF ~c.condition_ THEN [c |-> c, hit |-> TRUE]
    ELSE IF result = "mutable"
      THEN [c |-> NotifyBreakpointEvent(c, "ConditionExpressionMutable", "Py_None"),
            hit |-> FALSE]
    ELSE IF result = "exception" THEN [c |-> c, hit |-> FALSE]
    ELSE IF result = "true" THEN [c |-> c, hit |-> TRUE]
    ELSE [c |-> ApplyConditionQuota(c, line_count), hit |-> FALSE]

\* OnBreakpointHit with the outcome of the evaluation; "charged" is what the
\* call took from each quota.
OnBreakpointHitOf(c, result, line_count) ==
    LET evaluated == EvaluateCondition(
                         [c EXCEPT !.events = << >>, !.hits = @ + 1,
                                   !.evaluation = [result |-> result,
                                                   line_count |-> line_count]],
                         result, line_count)
        notified == IF evaluated.hit
                      THEN NotifyBreakpointEvent(evaluated.c, "Hit", "frame")
                    ELSE evaluated.c
    IN [notified EXCEPT !.charged =
           [global |-> notified.g_global_condition_quota.granted
                           - c.g_global_condition_quota.granted,
            breakpoint |-> notified.per_breakpoint_condition_quota_.granted
                           - c.per_breakpoint_condition_quota_.granted]]

ConditionalInit ==
    /\ InitWorld("small")
    /\ manipulator = Idle
    /\ bucket = Idle
    /\ tracer = Idle
    /\ thread = Idle
    /\ codec = Idle
    /\ thread_breakpoints = Idle
    /\ \E condition \in BOOLEAN : conditional = ConditionalBreakpoint(condition)

\* The patched bytecode calls the breakpoint: the condition runs "line_count"
\* counted events and ends with "result".
OnBreakpointHit(result, line_count) ==
    /\ conditional.hits < MaxCalls
    /\ conditional' = OnBreakpointHitOf(conditional, result, line_count)

\* The clock of the quotas moves on.
ConditionalTick ==
    /\ conditional.now < MaxTime
    /\ conditional' = [conditional EXCEPT !.now = @ + 1]

ConditionalNext ==
    /\ \/ \E result \in ConditionResults, line_count \in 0..(Capacity + 1) :
              OnBreakpointHit(result, line_count)
       \/ ConditionalTick
    /\ UNCHANGED <<registry, manipulator, bucket, tracer, thread, codec, thread_breakpoints>>

ConditionalSpec == ConditionalInit /\ [][ConditionalNext]_vars

\* A quota has no token left: a request of one more line would fail now.
Exhausted(b, now) == ~RequestTokensAlone(b, 1, now).ok

\* C23: after a breakpoint hit whose condition was evaluated, the tracer's
\* line count has been taken from the global and from the breakpoint's
\* condition quota, whatever the result; and no Hit is surfaced when either
\* quota is exhausted.
C23_ConditionQuotaCharged ==
    (conditional.condition_ /\ conditional.evaluation.result # "none") =>
        /\ conditional.charged.global = conditional.evaluation.line_count
        /\ conditional.charged.breakpoint = conditional.evaluation.line_count
        /\ (\/ Exhausted(conditional.g_global_condition_quota, conditional.now)
            \/ Exhausted(conditional.per_breakpoint_condition_quota_,
                         conditional.now))
             => \A i \in 1..Len(conditional.events) :
                    conditional.events[i].event # "Hit"

----------------------------------------------------------------------------
(* ReadInstruction and WriteInstruction of BytecodeManipulator, in the      *)
(* encoding of Python 3 (two bytes an instruction, EXTENDED_ARG             *)
(* instructions in front) and of Python 2 (one, three or six bytes).        *)

CodecSize == 8

CodecOpcodes ==
    {POP_TOP, NOP, YIELD_VALUE, LOAD_CONST, JUMP_FORWARD, JUMP_ABSOLUTE,
     POP_JUMP_IF_FALSE}

CodecArguments == {0, 1, 255, 256, 65535, 65536, 16777215, 16777216, 2147483647}

\* What the bytes of a new vector hold.
CodecFill == {0, 255}

\* ReadInstruction, PY_MAJOR_VERSION < 3.
Py2_ReadInstruction(bytecode, it) ==
    IF it >= Len(bytecode) THEN BM_kInvalidInstruction
    ELSE IF bytecode[it + 1] = EXTENDED_ARG THEN
        IF Len(bytecode) - it < 6 THEN BM_kInvalidInstruction
        ELSE [opcode |-> bytecode[it + 4],
              argument |-> (bytecode[it + 2] + 256 * bytecode[it + 3]) * TwoTo16
                             + bytecode[it + 5] + 256 * bytecode[it + 6],
              size |-> 6]
    ELSE IF HAS_ARG(bytecode[it + 1]) THEN
        IF Len(bytecode) - it < 3 THEN BM_kInvalidInstruction
        ELSE [opcode |-> bytecode[it + 1],
              argument |-> bytecode[it + 2] + 256 * bytecode[it + 3],
              size |-> 3]
    ELSE [opcode |-> bytecode[it + 1], argument |-> 0, size |-> 1]

\* The bytes WriteInstruction writes, PY_MAJOR_VERSION < 3.
Py2_InstructionBytes(instruction) ==
    IF instruction.size = 6
      THEN <<EXTENDED_ARG>>
           \o WritePythonBytecodeUInt16(instruction.argument \div TwoTo16)
           \o <<instruction.opcode>>
           \o WritePythonBytecodeUInt16(instruction.argument % TwoTo16)
    ELSE IF HAS_ARG(instruction.opcode)
      THEN <<instruction.opcode>>
           \o WritePythonBytecodeUInt16(instruction.argument % TwoTo16)
    ELSE <<instruction.opcode>>

CodecRead(version, bytecode, it) ==
    IF version = 3 THEN BM_ReadInstruction(bytecode, it, 0)
    ELSE Py2_ReadInstruction(bytecode, it)

CodecWrite(version, bytecode, it, instruction) ==
    IF version = 3 THEN BM_WriteInstruction(bytecode, it, instruction)
    ELSE BM_WriteBytes(bytecode, it, Py2_InstructionBytes(instruction))

\* The instructions with an argument their size has room for.
CodecInstructions(version) ==
    {instruction \in [opcode : CodecOpcodes, argument : CodecArguments,
                      size : IF version = 3 THEN {2, 4, 6, 8} ELSE {1, 3, 6}] :
        IF version = 3
          THEN \/ instruction.size = 8
               \/ instruction.size = 6 /\ instruction.argument <= 16777215
               \/ instruction.size = 4 /\ instruction.argument <= 65535
               \/ instruction.size = 2 /\ instruction.argument <= 255
          ELSE \/ instruction.size = 6 /\ HAS_ARG(instruction.opcode)
               \/ /\ instruction.size = 3
                  /\ HAS_ARG(instruction.opcode)
                  /\ instruction.argument <= 65535
               \/ /\ instruction.size = 1
                  /\ ~HAS_ARG(instruction.opcode)
                  /\ instruction.argument = 0}

CodecInit ==
    /\ InitWorld("small")
    /\ manipulator = Idle
    /\ bucket = Idle
    /\ tracer = Idle
    /\ thread = Idle
    /\ conditional = Idle
    /\ thread_breakpoints = Idle
    /\ \E version \in {2, 3}, fill \in CodecFill :
          codec = [op |-> "vector",
                   version |-> version,
                   bytecode |-> [i \in 1..CodecSize |-> fill],
                   it |-> 0,
                   instruction |-> BM_kInvalidInstruction]

\* WriteInstruction(it, instruction) on a new vector; the caller has made
\* sure that the vector has the space.
CodecWriteInstruction(it, instruction) ==
    /\ codec.op = "vector"
    /\ it + instruction.size <= Len(codec.bytecode)
    /\ codec' = [codec EXCEPT
                   !.op = "WriteInstruction",
                   !.bytecode = CodecWrite(codec.version, codec.bytecode, it, instruction),
                   !.it = it,
                   !.instruction = instruction]

\* ReadInstruction(bytecode, it)
CodecReadInstruction(it) ==
    /\ codec' = [codec EXCEPT
                   !.op = "ReadInstruction",
                   !.it = it,
                   !.instruction = CodecRead(codec.version, codec.bytecode, it)]

CodecNext ==
    /\ \/ \E it \in 0..(CodecSize - 1) :
              \E instruction \in CodecInstructions(codec.version) :
                  CodecWriteInstruction(it, instruction)
       \/ \E it \in 0..CodecSize : CodecReadInstruction(it)
    /\ UNCHANGED <<registry, manipulator, bucket, tracer, thread, conditional, thread_breakpoints>>

CodecSpec == CodecInit /\ [][CodecNext]_vars

\* C36: in both encodings, the instruction read where WriteInstruction wrote
\* an instruction has the opcode, the argument and the size of the written
\* one, and WriteInstruction of an instruction read at an offset writes the
\* bytes that are there.
C36_ReadWriteRoundTrip ==
    /\ codec.op = "WriteInstruction" =>
          CodecRead(codec.version, codec.bytecode, codec.it) = codec.instruction
    /\ (codec.op = "ReadInstruction" /\ codec.instruction # BM_kInvalidInstruction) =>
          CodecWrite(codec.version, codec.bytecode, codec.it, codec.instruction)
            = codec.bytecode

\* A relative branch with three EXTENDED_ARG instructions in front was
\* written in the encoding of Python 3 and is read back as written.
C36_Witness ==
    /\ codec.op = "WriteInstruction"
    /\ codec.version = 3
    /\ codec.instruction = [opcode |-> JUMP_FORWARD, argument |-> 2147483647, size |-> 8]
    /\ CodecRead(codec.version, codec.bytecode, codec.it) = codec.instruction

\* An absolute branch behind an EXTENDED_ARG was read in the encoding of
\* Python 2 and writing it back leaves the bytes as they are.
C36_WitnessRead ==
    /\ codec.op = "ReadInstruction"
    /\ codec.version = 2
    /\ codec.instruction = [opcode |-> JUMP_ABSOLUTE, argument |-> 65536, size |-> 6]
    /\ CodecWrite(codec.version, codec.bytecode, codec.it, codec.instruction)
         = codec.bytecode

----------------------------------------------------------------------------
(* The verified code objects of the tracer.                                *)

\* One of the names of the code object is on the blacklist.
HasBlacklistedName(code_object) ==
    /\ code_object.co_names # CorruptedNames
    /\ \E i \in 1..Len(code_object.co_names) :
           code_object.co_names[i] \in kBlacklistedCodeObjectNames

\* C37: the callback of a CALL event whose code object has a blacklisted
\* name returns the error with the exception set, the first time and every
\* later time; and every code object among the verified ones has names that
\* are a tuple of strings none of which is blacklisted.
C37_BlacklistedNamesAbort ==
    /\ \A code_object \in TracerCodeObjects :
          code_object.name \in tracer.verified_code_objects_ =>
              /\ code_object.co_names # CorruptedNames
              /\ ~HasBlacklistedName(code_object)
    /\ (tracer.event.what = PyTrace_CALL /\ HasBlacklistedName(EventCode)) =>
          /\ tracer.mutable_code_detected_
          /\ tracer.exception
          /\ tracer.result = -1

\* A later call of a code object with a blacklisted name, the second of its
\* names: the flag was set before it and the callback failed again, with a
\* clean code object verified in between.
C37_Witness ==
    /\ tracer.event.what = PyTrace_CALL
    /\ tracer.event.code = "delitem"
    /\ tracer.event.mutable_code_detected_
    /\ tracer.event.line_count_ = 0
    /\ tracer.verified_code_objects_ = {"add"}
    /\ tracer.result = -1

----------------------------------------------------------------------------
(* The events of one breakpoint hit.                                       *)

\* C38: the calls of the callback made by one OnBreakpointHit. Without a
\* condition and with a condition that is true: one Hit with the frame. The
\* tracer aborted the evaluation: one ConditionExpressionMutable and no Hit.
\* The evaluation raised: none. The condition is false: none, or one of the
\* two quota events.
C38_OneEventPerHit ==
    conditional.hits > 0 =>
        /\ Len(conditional.events) <= 1
        /\ (~conditional.condition_ \/ conditional.evaluation.result = "true")
             => conditional.events = <<[event |-> "Hit", frame |-> "frame"]>>
        /\ (conditional.condition_ /\ conditional.evaluation.result = "mutable")
             => conditional.events
                  = <<[event |-> "ConditionExpressionMutable", frame |-> "Py_None"]>>
        /\ (conditional.condition_ /\ conditional.evaluation.result = "exception")
             => conditional.events = << >>
        /\ (conditional.condition_ /\ conditional.evaluation.result = "false")
             => \/ conditional.events = << >>
                \/ conditional.events
                     = <<[event |-> "GlobalConditionQuotaExceeded", frame |-> "Py_None"]>>
                \/ conditional.events
                     = <<[event |-> "BreakpointConditionQuotaExceeded",
                          frame |-> "Py_None"]>>

\* A false condition that took more lines than either quota holds: the
\* global quota event and nothing else.
C38_Witness ==
    /\ conditional.hits > 0
    /\ conditional.condition_
    /\ conditional.evaluation.result = "false"
    /\ conditional.evaluation.line_count > Capacity
    /\ conditional.events
         = <<[event |-> "GlobalConditionQuotaExceeded", frame |-> "Py_None"]>>

\* The tracer aborted the evaluation: ConditionExpressionMutable, no Hit.
C38_WitnessMutable ==
    /\ conditional.hits > 0
    /\ conditional.condition_
    /\ conditional.evaluation.result = "mutable"
    /\ conditional.events
         = <<[event |-> "ConditionExpressionMutable", frame |-> "Py_None"]>>

----------------------------------------------------------------------------
(* The functions of the native module that set and clear breakpoints      *)
(* (native_module.cc).                                                     *)

\* ConditionalBreakpoint::OnBreakpointError
OnBreakpointError(c) == NotifyBreakpointEvent(c, "Error", "Py_None")

\* OnBreakpointError, "count" times.
RECURSIVE OnBreakpointErrors(_, _)
OnBreakpointErrors(c, count) ==
    IF count = 0 THEN c ELSE OnBreakpointErrors(OnBreakpointError(c), count - 1)

\* The calls of the error callback of breakpoint "cookie" among "errors".
ErrorCallbacksOf(errors, cookie) ==
    Cardinality({i \in 1..Len(errors) : errors[i] = cookie})

\* SetConditionalBreakpoint(code_object, line, condition, callback) with
\* valid arguments: a new ConditionalBreakpoint, whose OnBreakpointError is
\* the error callback of SetBreakpoint and is called once more for the
\* cookie -1. "conditional" is the ConditionalBreakpoint of the last call.
SetConditionalBreakpoint(code_object, line, condition) ==
    /\ SetBreakpoint(code_object, line)
    /\ conditional' =
          OnBreakpointErrors(
              ConditionalBreakpoint(condition),
              ErrorCallbacksOf(last'.error_callbacks, last'.cookie)
                + (IF last'.cookie = -1 THEN 1 ELSE 0))

\* ClearConditionalBreakpoint(cookie)
ClearConditionalBreakpoint(cookie) ==
    /\ ClearBreakpoint(cookie)
    /\ UNCHANGED conditional

ModuleInit ==
    /\ \E world \in {"small", "huge"} : InitWorld(world)
    /\ manipulator = Idle
    /\ bucket = Idle
    /\ tracer = Idle
    /\ thread = Idle
    /\ conditional = Idle
    /\ codec = Idle
    /\ thread_breakpoints = Idle

ModuleNext ==
    /\ \/ \E code_object \in Targets, line \in 0..MaxLine, condition \in BOOLEAN :
              SetConditionalBreakpoint(code_object, line, condition)
       \/ \E cookie \in Cookies : ClearConditionalBreakpoint(cookie)
    /\ UNCHANGED <<manipulator, bucket, tracer, thread, codec, thread_breakpoints>>

ModuleSpec == ModuleInit /\ [][ModuleNext]_vars

\* The Error events the callback of the last SetConditionalBreakpoint got.
ErrorEvents ==
    Cardinality({i \in 1..Len(conditional.events) :
                    conditional.events[i].event = "Error"})

\* C39: after a SetConditionalBreakpoint that returned the cookie -1, the
\* callback given to it has been called with the Error event exactly once.
C39_ErrorOnceOnFailure ==
    (last.op = "SetBreakpoint" /\ last.cookie = -1) => ErrorEvents = 1

----------------------------------------------------------------------------
(* ThreadBreakpoints (thread_breakpoints.cc): the breakpoints of one       *)
(* Python thread, emulated with the profile and the trace callback of the  *)
(* interpreter. A callback is installed exactly while its flag is set.     *)

MaxThreadBreakpoints == 2

ThreadCookies == {1, 2}

ThreadCodeObjects == {"f", "g"}

\* The lines of the line table of a code object.
CodeLines(code_object) == IF code_object = "f" THEN {1, 2} ELSE {3}

ThreadLines == {1, 2, 3}

PythonBreakpoint(cookie, code_object, source_line) ==
    [cookie |-> cookie, code_object |-> code_object, source_line |-> source_line]

\* The events the interpreter gives to a profile and to a trace function.
ProfileEvents == {PyTrace_CALL, PyTrace_RETURN, PyTrace_C_CALL}
TraceEvents == {PyTrace_CALL, PyTrace_LINE, PyTrace_RETURN, PyTrace_EXCEPTION}

NoTraceEvent == [what |-> "none", f_code |-> "", f_lineno |-> 0, f_back |-> ""]

\* ThreadBreakpoints(). "pc" is where the thread is: in no trace callback,
\* in the callbacks of an exceeded quota or in the callbacks of a hit, with
\* "callbacks" of them still to return.
ThreadBreakpoints ==
    [breakpoints_ |-> << >>,
     profile_active_ |-> FALSE,
     trace_active_ |-> FALSE,
     in_callback_ |-> FALSE,
     pc |-> "idle",
     callbacks |-> 0,
     event |-> NoTraceEvent]

EnableProfileCallback(t, enable) == [t EXCEPT !.profile_active_ = enable]

EnableTraceCallback(t, enable) == [t EXCEPT !.trace_active_ = enable]

ActiveBreakpointsChanged(t) ==
    IF t.in_callback_ THEN t
    ELSE IF t.breakpoints_ = << >>
      THEN EnableTraceCallback(EnableProfileCallback(t, FALSE), FALSE)
    ELSE IF ~t.profile_active_ /\ ~t.trace_active_
      THEN EnableProfileCallback(t, TRUE)
    ELSE t

\* IsBreakpointAtCodeObject: a breakpoint of the code object on one of its
\* lines. The cache is reset with every change of the breakpoints.
IsBreakpointAtCodeObject(t, code_object) ==
    \E i \in 1..Len(t.breakpoints_) :
        /\ t.breakpoints_[i].code_object = code_object
        /\ t.breakpoints_[i].source_line \in CodeLines(code_object)

\* The callbacks of the breakpoints at the line of the frame.
Matches(t) ==
    {i \in 1..Len(t.breakpoints_) :
        /\ t.breakpoints_[i].source_line = t.event.f_lineno
        /\ t.breakpoints_[i].code_object = t.event.f_code}

Returned(t) == [t EXCEPT !.pc = "idle", !.callbacks = 0]

\* The switch of OnTraceCallbackInternal over the event, up to the return
\* or to the first hit callback.
ThreadSwitch(t) ==
    IF t.event.what = PyTrace_CALL
      THEN LET left == IF t.trace_active_
                            /\ ~IsBreakpointAtCodeObject(t, t.event.f_code)
                         THEN EnableProfileCallback(EnableTraceCallback(t, FALSE), TRUE)
                       ELSE t
           IN IF ~left.trace_active_ /\ IsBreakpointAtCodeObject(t, t.event.f_code)
                THEN Returned(EnableProfileCallback(
                                  EnableTraceCallback(left, TRUE), FALSE))
              ELSE Returned(left)
    ELSE IF t.event.what = PyTrace_LINE
      THEN IF Matches(t) = {} THEN Returned(t)
           ELSE [EnableTraceCallback(t, FALSE) EXCEPT
                    !.in_callback_ = TRUE,
                    !.pc = "hit_callback",
                    !.callbacks = Cardinality(Matches(t))]
    ELSE IF t.event.what = PyTrace_RETURN
      THEN IF /\ ~t.trace_active_
              /\ t.event.f_back # ""
              /\ IsBreakpointAtCodeObject(t, t.event.f_back)
             THEN Returned(EnableProfileCallback(
                               EnableTraceCallback(t, TRUE), FALSE))
           ELSE Returned(t)
    ELSE Returned(t)

\* What follows the last hit callback.
AfterHitCallbacks(t) ==
    LET out == [t EXCEPT !.in_callback_ = FALSE]
    IN IF IsBreakpointAtCodeObject(out, out.event.f_code)
         THEN Returned(EnableTraceCallback(out, TRUE))
       ELSE IF out.breakpoints_ # << >>
         THEN Returned(EnableProfileCallback(out, TRUE))
       ELSE Returned(out)

ThreadBreakpointsInit ==
    /\ InitWorld("small")
    /\ manipulator = Idle
    /\ bucket = Idle
    /\ tracer = Idle
    /\ thread = Idle
    /\ conditional = Idle
    /\ codec = Idle
    /\ thread_breakpoints = ThreadBreakpoints

\* SetBreakpoint, called by the emulator between the events of the thread
\* or by the Python code of a callback.
ThreadSetBreakpoint(new_breakpoint) ==
    /\ Len(thread_breakpoints.breakpoints_) < MaxThreadBreakpoints
    /\ thread_breakpoints' =
          ActiveBreakpointsChanged(
              [thread_breakpoints EXCEPT !.breakpoints_ = Append(@, new_breakpoint)])

ThreadClearBreakpoint(cookie) ==
    /\ thread_breakpoints' =
          ActiveBreakpointsChanged(
              [thread_breakpoints EXCEPT !.breakpoints_ =
                  SelectSeq(@, LAMBDA b : b.cookie # cookie)])

DetachThread ==
    /\ thread_breakpoints' =
          ActiveBreakpointsChanged([thread_breakpoints EXCEPT !.breakpoints_ = << >>])

\* The interpreter calls OnTraceCallback with an event of an installed
\* callback, in a frame of f_code at f_lineno called from f_back; the trace
\* quota has a token or not. The interpreter makes no such call while the
\* thread is in one.
ThreadOnTraceCallback(what, f_code, f_lineno, f_back, quota) ==
    /\ thread_breakpoints.pc = "idle"
    /\ \/ thread_breakpoints.profile_active_ /\ what \in ProfileEvents
       \/ thread_breakpoints.trace_active_ /\ what \in TraceEvents
    /\ \E t \in {[thread_breakpoints EXCEPT !.event =
                      [what |-> what, f_code |-> f_code,
                       f_lineno |-> f_lineno, f_back |-> f_back]]} :
          thread_breakpoints' =
              IF ~quota /\ t.breakpoints_ # << >>
                THEN [t EXCEPT !.pc = "quota_callback",
                               !.callbacks = Len(t.breakpoints_)]
              ELSE ThreadSwitch(t)

\* A callback called with EmulatorQuotaExceeded returns; after the last one
\* the event is handled.
QuotaCallbackReturns ==
    /\ thread_breakpoints.pc = "quota_callback"
    /\ thread_breakpoints' =
          IF thread_breakpoints.callbacks > 1
            THEN [thread_breakpoints EXCEPT !.callbacks = @ - 1]
          ELSE ThreadSwitch(thread_breakpoints)

\* A callback called with Hit returns.
HitCallbackReturns ==
    /\ thread_breakpoints.pc = "hit_callback"
    /\ thread_breakpoints' =
          IF thread_breakpoints.callbacks > 1
            THEN [thread_breakpoints EXCEPT !.callbacks = @ - 1]
          ELSE AfterHitCallbacks(thread_breakpoints)

ThreadBreakpointsNext ==
    /\ \/ \E cookie \in ThreadCookies, code_object \in ThreadCodeObjects,
              source_line \in ThreadLines :
              ThreadSetBreakpoint(PythonBreakpoint(cookie, code_object, source_line))
       \/ \E cookie \in ThreadCookies : ThreadClearBreakpoint(cookie)
       \/ DetachThread
       \/ \E what \in ProfileEvents \cup TraceEvents,
              f_code \in ThreadCodeObjects, f_back \in ThreadCodeObjects \cup {""},
              quota \in BOOLEAN :
              \E f_lineno \in CodeLines(f_code) :
                  ThreadOnTraceCallback(what, f_code, f_lineno, f_back, quota)
       \/ QuotaCallbackReturns
       \/ HitCallbackReturns
    /\ UNCHANGED <<registry, manipulator, bucket, tracer, thread, conditional, codec>>

ThreadBreakpointsSpec == ThreadBreakpointsInit /\ [][ThreadBreakpointsNext]_vars

\* C40: the profile callback and the trace callback are never installed
\* together; while the thread is in a hit callback neither is installed, so
\* that no trace event comes; and outside a hit callback one of them is
\* installed exactly if the thread has a breakpoint.
C40_TracerIffBreakpoints ==
    /\ ~(thread_breakpoints.profile_active_ /\ thread_breakpoints.trace_active_)
    /\ thread_breakpoints.in_callback_ =>
          /\ ~thread_breakpoints.profile_active_
          /\ ~thread_breakpoints.trace_active_
    /\ ~thread_breakpoints.in_callback_ =>
          ((thread_breakpoints.profile_active_ \/ thread_breakpoints.trace_active_)
             <=> thread_breakpoints.breakpoints_ # << >>)

====
